---- MODULE Spec2Model ----
(***************************************************************************)
(* Flink SQL toolkit: the notebook controller's statement execution engine *)
(* (FlinkNotebookController._doExecution) and the session registry         *)
(* (SessionManager), as state machines.                                    *)
(*                                                                         *)
(* Spec         one cell execution of the notebook controller against a    *)
(*              gateway that answers every request.                        *)
(* FairSpec     Spec with the engine's steps weakly fair (every request is *)
(*              answered, every timer fires).                              *)
(* PollSpec     Spec against a gateway that keeps the journal of a         *)
(*              statement's pages.                                         *)
(* SessionSpec  the commands and provider calls of the session registry,   *)
(*              the workspace state updated at once.                       *)
(* ReloadSpec   SessionSpec on one connection with updates of the          *)
(*              workspace state that complete later, and window reloads.   *)
(* OutageSpec   SessionSpec with liveness checks that fail in the network. *)
(* CacheSpec    the metadata caches of the explorer and the catalog        *)
(*              provider.                                                  *)
(* ClientSpec   the gateway client's handling of a failed request.         *)
(* CancelSpec   FlinkGatewayClient.cancelOperation.                        *)
(* MetadataSpec FlinkGatewayClient.executeMetadataSql.                     *)
(***************************************************************************)
EXTENDS Integers, Sequences, FiniteSets, TLC

(***************************************************************************)
(* Program constants of _doExecution.                                      *)
(***************************************************************************)
maxReadyRetries == 60
maxBatchRetries == 120
maxPolls == 1000
maxStreamingRows == 1000
batchErrorLimit == 5
streamErrorLimit == 5

(***************************************************************************)
(* Bounds of the model.                                                    *)
(*   MaxFetches   result fetches per statement that the gateway answers    *)
(*                freely; afterwards it answers EOS with no rows.          *)
(*   MaxRowPages  pages per statement that carry rows.                     *)
(*   PageExtra    a large page carries maxStreamingRows + PageExtra rows.  *)
(***************************************************************************)
MaxFetches == 3
MaxRowPages == 2
PageExtra == 1

NoToken == -1
NoOffset == -1

PageSizes == {0, 1, maxStreamingRows + PageExtra}

ResultTypes == {"NOT_READY", "PAYLOAD", "EOS", "ERROR", "CANCELED", "FINISHED"}

\* Errors a gateway request can raise, by what the engine's handlers look for
\* in the error text.
ErrorClasses == {"transient", "tablealreadyexistexception", "noresourceavailableexception"}

(***************************************************************************)
(* Cell text.  A cell is a sequence of lexical tokens: words, the blank    *)
(* " " and the delimiter ";".                                              *)
(***************************************************************************)
Cells ==
    { <<>>,
      <<" ", ";", " ">>,
      <<"DROP", " ", "t">>,
      <<"Create", " ", "t", ";", " ", "create", " ", "v", ";">> }

\* String.prototype.toUpperCase, word by word.
ToUpperCase(w) ==
    CASE w = "create" -> "CREATE"
      [] w = "Create" -> "CREATE"
      [] w = "t" -> "T"
      [] w = "v" -> "V"
      [] OTHER -> w

\* String.prototype.split(';'): the pieces between the delimiters, empty
\* pieces included.
RECURSIVE SplitAt(_, _)
SplitAt(text, piece) ==
    IF text = <<>> THEN <<piece>>
    ELSE IF Head(text) = ";" THEN <<piece>> \o SplitAt(Tail(text), <<>>)
    ELSE SplitAt(Tail(text), Append(piece, Head(text)))

Split(text) == SplitAt(text, <<>>)

RECURSIVE TrimStart(_)
TrimStart(s) == IF s # <<>> /\ Head(s) = " " THEN TrimStart(Tail(s)) ELSE s

RECURSIVE TrimEnd(_)
TrimEnd(s) ==
    IF s # <<>> /\ s[Len(s)] = " " THEN TrimEnd(SubSeq(s, 1, Len(s) - 1)) ELSE s

\* String.prototype.trim
Trim(s) == TrimEnd(TrimStart(s))

\* sql.split(';').map(s => s.trim()).filter(s => s.length > 0)
SplitStatements(text) ==
    LET pieces == Split(text)
        trimmed == [i \in 1..Len(pieces) |-> Trim(pieces[i])]
    IN  SelectSeq(trimmed, LAMBDA s : Len(s) > 0)

\* s.toUpperCase().startsWith('CREATE')
StartsWithCreate(s) == Len(s) > 0 /\ ToUpperCase(s[1]) = "CREATE"

\* statements.some(s => s.toUpperCase().startsWith('CREATE'))
HasCreate(stmts) == \E i \in 1..Len(stmts) : StartsWithCreate(stmts[i])

(***************************************************************************)
(* Rows, buffers and published outputs.                                    *)
(***************************************************************************)
\* The n rows the gateway serves after it has served `served` rows: every
\* row of an operation has its own number, in the order served.
PageRows(served, n) == [i \in 1..n |-> served + i]

\* A push that puts the new rows in front of the buffer.
PushRowsInFront(buf, rows) == rows \o buf

\* allResults.push(...nextData.results)
PushRows(buf, rows) == buf \o rows

\* A window that keeps the oldest rows: allResults.slice(0, maxStreamingRows).
WindowOldest(buf) ==
    IF Len(buf) > maxStreamingRows THEN SubSeq(buf, 1, maxStreamingRows) ELSE buf

\* if (allResults.length > maxStreamingRows)
\*     allResults = allResults.slice(-maxStreamingRows)
Window(buf) ==
    IF Len(buf) > maxStreamingRows
    THEN SubSeq(buf, Len(buf) - maxStreamingRows + 1, Len(buf))
    ELSE buf

\* Math.max(0, totalRows - allResults.length)
WindowOffset(total, buf) == IF total - Len(buf) > 0 THEN total - Len(buf) ELSE 0

\* metadata: undefined
NoMeta == [defined |-> FALSE, isStreaming |-> FALSE, isComplete |-> FALSE, offset |-> NoOffset]

\* metadata: { isStreaming, isComplete, offset? }
Meta(s, c, o) == [defined |-> TRUE, isStreaming |-> s, isComplete |-> c, offset |-> o]

\* createOutput(rows, streamingInfo)
createOutput(rows, meta) ==
    [kind |-> "table", message |-> "", data |-> rows, metadata |-> meta]

\* The output appended for a statement error.
ErrorOutput(err) ==
    [kind |-> IF err = "noresourceavailableexception" THEN "resource-error"
              ELSE IF err = "tablealreadyexistexception" THEN "already-exists-text"
              ELSE "error",
     message |-> IF err = "noresourceavailableexception" THEN "no resources available"
                 ELSE IF err = "tablealreadyexistexception" THEN "table already exists"
                 ELSE err,
     data |-> <<>>, metadata |-> NoMeta]

\* The renderer's reading of a published table: offset 0 when none is given.
globalOffset(out) ==
    IF out.metadata.defined /\ out.metadata.offset # NoOffset THEN out.metadata.offset ELSE 0

\* The gateway of the bounds above: it answers EOS once it has answered
\* MaxFetches fetches of a statement, and keeps no journal of its answers.
Bounded ==
    [fetches |-> MaxFetches, rowPages |-> MaxRowPages, tail |-> "EOS", journal |-> FALSE]

\* No fetch of the statement has been answered; no page has been fetched.
NoAnswer == [token |-> NoToken, kind |-> "none", err |-> "none"]
NoPage == [token |-> NoToken, nextResultToken |-> NoToken]

VARIABLES
    cell,               \* the cell's text
    pc,                 \* where the cell execution stands
    sessionHandle,      \* what _getSession returned
    statements,         \* the split statements
    hasCreateStatement,
    stmtIdx,            \* index of the statement of the for loop
    cancelRequested,    \* execution.token.isCancellationRequested
    ended,              \* execution.end(success): "running", "success", "failure"
    fired,              \* number of _onDidExecute.fire() calls
    outputs,            \* the cell's outputs
    resultType,         \* resultData.resultType
    isStreaming,
    allResults,
    readyRetries,
    token,
    batchRetries,
    currentToken,
    pollCount,
    consecutiveEmpty,
    totalRows,
    \* the gateway
    gateway,            \* what it does for a statement: fetches answered freely,
                        \* pages with rows, its answer ever after, and whether
                        \* it keeps the journal below
    rowsServed,         \* rows served for the current operation
    fetchesLeft,
    rowPagesLeft,
    \* history
    submitted,          \* statement texts handed to executeStatement, in order
    outcome,            \* per statement, the terminal outcomes reached
    fetchCount,         \* result fetches issued for the statement
    nPublish,           \* table publishes made for the statement
    nComplete,          \* of which marked isComplete
    remoteCancels,      \* cancelOperation calls for the statement
    cancelSeen,         \* the engine saw the cancellation in batch or stream polling
    mode,               \* how the statement was classified: "none", "batch", "stream"
    firstPage,          \* the latest answer to a fetch of token 0: "none", "thrown",
                        \* "NOT_READY", "EOS" or "ready"
    \* the gateway's journal of the statement's result fetches
    lastAnswer,         \* the latest answer
    lastPage,           \* the latest page fetched without error: its token and the
                        \* nextResultToken it carried
    errorsInRow         \* failed fetches since the last page fetched without error

cellVars == <<cell, gateway, pc, sessionHandle, statements, hasCreateStatement, stmtIdx,
              cancelRequested, ended, fired, outputs>>
stmtVars == <<resultType, isStreaming, allResults, readyRetries, token, batchRetries,
              currentToken, pollCount, consecutiveEmpty, totalRows>>
gatewayVars == <<rowsServed, fetchesLeft, rowPagesLeft>>
historyVars == <<submitted, outcome, fetchCount, nPublish, nComplete, remoteCancels,
                 cancelSeen, mode, firstPage, lastAnswer, lastPage, errorsInRow>>
engineVars == <<cellVars, stmtVars, gatewayVars, historyVars>>

VARIABLES
    connections,            \* ConnectionManager.connections: the connection ids
    _sessions,              \* SessionManager._sessions
    _activeSessionHandle,   \* SessionManager._activeSessionHandle
    issued,                 \* the number of handles the gateway has issued
    calls,                  \* the registry operations in flight, by caller
    started,                \* the number of operations started
    flinkSessionsList,      \* workspaceState: the stored session list
    flinkActiveSessionHandle, \* workspaceState: the stored active handle
    saves,                  \* _saveSessions calls nobody awaits, between their two
                            \* updates
    workbench               \* what surrounds the registry in this behaviour: when
                            \* workspaceState answers an update, and how a liveness
                            \* request fails

storeVars == <<flinkSessionsList, flinkActiveSessionHandle, saves>>
registryVars == <<connections, _sessions, _activeSessionHandle, issued, calls, started,
                  storeVars, workbench>>

VARIABLES
    provider,               \* the metadata cache at work
    cache,                  \* its cache: per key, nothing, data or a promise
    pendingRequests,        \* FlinkCatalogProvider.pendingRequests: per key, the fetch
    fetches,                \* the fetchers started, in order
    requests                \* the requests made to the cache, in order

cacheVars == <<provider, cache, pendingRequests, fetches, requests>>

VARIABLES
    response,               \* the non-2xx response request() got: status and body
    raised,                 \* the error handleErrorResponse threw for it
    cancelCall,             \* a cancelOperation call: its argument, what its requests
                            \* will be answered, where it stands, the requests made
    metaCall                \* an executeMetadataSql call: where it stands, its locals,
                            \* the fetches it has issued and the rows it has fetched

clientVars == <<response, raised, cancelCall, metaCall>>

vars == <<engineVars, registryVars, cacheVars, clientVars>>

\* What the steps of one component leave alone.
outsideEngine == <<registryVars, cacheVars, clientVars>>
outsideRegistry == <<engineVars, cacheVars, clientVars>>
outsideCache == <<engineVars, registryVars, clientVars>>
outsideClient == <<engineVars, registryVars, cacheVars>>

(***************************************************************************)
(* The gateway client's error responses.  A text is the sequence of its    *)
(* pieces; a body that is not of the form {errors: [...]} is known by the  *)
(* number of its characters.                                               *)
(***************************************************************************)
MaxStackLen == 5
maxRawLength == 500

Statuses == {"404", "500"}
ShortMessages == {<<"Internal server error.">>, <<>>}
StackPieces == {"<Exception on server side:", "\n", " ", "Caused by:", "x", ">"}
Stacks == UNION {[1..n -> StackPieces] : n \in 0..MaxStackLen}
RawLengths == {0, maxRawLength, maxRawLength + 1}

\* The bodies of a non-2xx response: JSON with an errors array of zero, one
\* or two texts, other JSON, and text that is not JSON.
Bodies ==
    {[kind |-> "errors", errors |-> <<>>, chars |-> 0]}
    \cup {[kind |-> "errors", errors |-> <<m>>, chars |-> 0] : m \in ShortMessages}
    \cup {[kind |-> "errors", errors |-> <<m, st>>, chars |-> 0] :
             m \in ShortMessages, st \in Stacks}
    \cup {[kind |-> k, errors |-> <<>>, chars |-> n] :
             k \in {"json", "raw"}, n \in RawLengths}

NoResponse == [status |-> "none", body |-> [kind |-> "none", errors |-> <<>>, chars |-> 0]]
NoError == [name |-> "none"]

\* `Flink Gateway Error (${status})`
DefaultMessage(status) == <<"Flink Gateway Error (", status, ")">>

\* rawStack.replace(/^<Exception on server side:\n?/, '')
StripOpening(st) ==
    IF st # <<>> /\ Head(st) = "<Exception on server side:"
    THEN (IF Tail(st) # <<>> /\ Head(Tail(st)) = "\n" THEN Tail(Tail(st)) ELSE Tail(st))
    ELSE st

\* .replace(/>$/, '')
StripClosing(st) ==
    IF st # <<>> /\ st[Len(st)] = ">" THEN SubSeq(st, 1, Len(st) - 1) ELSE st

\* rawStack.split('\n')
RECURSIVE SplitLinesAt(_, _)
SplitLinesAt(text, line) ==
    IF text = <<>> THEN <<line>>
    ELSE IF Head(text) = "\n" THEN <<line>> \o SplitLinesAt(Tail(text), <<>>)
    ELSE SplitLinesAt(Tail(text), Append(line, Head(text)))

SplitLines(text) == SplitLinesAt(text, <<>>)

\* l.trim().startsWith('Caused by:')
IsCausedBy(l) == Trim(l) # <<>> /\ Head(Trim(l)) = "Caused by:"

\* The first of the lines instead of the last.
RootCauseFirst(causedByLines) == Trim(causedByLines[1])

\* causedByLines[causedByLines.length - 1].trim()
RootCause(causedByLines) == Trim(causedByLines[Len(causedByLines)])

\* new FlinkServerError(message, stack, status): the stack is set only when
\* it is not empty.
FlinkServerError(message, appended, stack, status) ==
    [name |-> "Flink Server Error", message |-> message, appended |-> appended,
     hasStack |-> stack # <<>>, stack |-> stack, statusCode |-> status]

\* `: ${text}`, cut to 500 characters and "..." when the text is longer.
RawText(n) ==
    IF n > maxRawLength THEN <<[chars |-> maxRawLength, ellipsis |-> TRUE]>>
    ELSE <<[chars |-> n, ellipsis |-> FALSE]>>

\* FlinkGatewayClient.handleErrorResponse: the error it throws.
handleErrorResponse(status, body) ==
    IF body.kind = "raw"
    THEN FlinkServerError(DefaultMessage(status), RawText(body.chars), <<>>, status)
    ELSE IF body.kind = "json"
    THEN FlinkServerError(DefaultMessage(status),
                          <<[chars |-> body.chars, ellipsis |-> FALSE]>>, <<>>, status)
    ELSE
        LET errors == body.errors
            message == IF Len(errors) > 0 THEN errors[1] ELSE DefaultMessage(status)
        IN  IF Len(errors) > 1
            THEN LET rawStack == StripClosing(StripOpening(errors[2]))
                     lines == SplitLines(rawStack)
                     causedByLines == SelectSeq(lines, IsCausedBy)
                 IN  FlinkServerError(
                         IF Len(causedByLines) > 0
                         THEN message \o <<" ">> \o RootCause(causedByLines)
                         ELSE message,
                         <<>>, rawStack, status)
            ELSE FlinkServerError(message, <<>>, <<>>, status)

\* What stops the job manager's PATCH of cancelJob, and what stops a gateway
\* request: nothing, a status that is not ok (with what the gateway's message
\* names), or the network.
JobAnswers == {"ok", "status", "network"}
CancelAnswers == {"ok", "status FINISHED", "status CANCELED", "status", "network"}
CloseAnswers == {"ok", "status", "network"}

NoCancelCall ==
    [pc |-> "idle", jobId |-> FALSE,
     answers |-> [job |-> "ok", cancel |-> "ok", close |-> "ok"],
     requests |-> <<>>, logged |-> <<>>, thrown |-> FALSE]

\* Program constant of executeMetadataSql.
maxMetadataRetries == 20

MaxPageRows == 2            \* rows of a page of a metadata statement

RowValues == {"a", "b"}
PagesOfRows == UNION {[1..n -> RowValues] : n \in 0..MaxPageRows}

NoResult == [resultType |-> "none", results |-> <<>>, nextResultToken |-> NoToken]

NoMetaCall ==
    [pc |-> "idle", token |-> 0, retries |-> 0, fetches |-> 0, result |-> NoResult,
     fetched |-> <<>>, returned |-> <<>>]

\* No request is being answered.
ClientIdle ==
    /\ response = NoResponse
    /\ raised = NoError
    /\ cancelCall = NoCancelCall
    /\ metaCall = NoMetaCall


(***************************************************************************)
(* The metadata caches: the catalog explorer's cachedFetch (a TTL cache    *)
(* with pending requests), its cached (a cache of promises), and the       *)
(* completion provider's metadataCache (a cache of values).  A fetch is    *)
(* known by its number; the data it brings is known by the same number.    *)
(***************************************************************************)
Providers == {"cachedFetch", "cached", "metadataCache"}
Keys == {"catalogs", "dbs"}

MaxRequests == 3            \* requests made to a cache in a behaviour

NoFetch == 0                \* no fetch: Map.get gives undefined

Nothing == [kind |-> "nothing", fetch |-> NoFetch, fresh |-> FALSE]

\* { data, timestamp: Date.now() }, or a value of metadataCache
Data(f) == [kind |-> "data", fetch |-> f, fresh |-> TRUE]

\* The promise of the fetcher f, as the cache of cached holds it.
Promise(f) == [kind |-> "promise", fetch |-> f, fresh |-> TRUE]

\* No request was made to any cache.
CacheIdle ==
    /\ provider = "cachedFetch"
    /\ cache = [k \in Keys |-> Nothing]
    /\ pendingRequests = [k \in Keys |-> NoFetch]
    /\ fetches = <<>>
    /\ requests = <<>>



(***************************************************************************)
(* The session registry: SessionManager, the connections it creates        *)
(* sessions on, the gateway's sessions, and the commands and providers     *)
(* that call it.  A call is a record that moves from one await to the      *)
(* next; everything between two awaits is one step.                        *)
(***************************************************************************)
Undefined == 0              \* undefined, as a session handle
EmptyHandle == -1           \* '', the handle of a cancelled createSession
NoConnection == "undefined" \* undefined, as a connection id
NoName == ""                \* no name given, or the input box dismissed

MaxCalls == 2               \* registry calls in flight at a time
MaxOps == 2                 \* commands, provider calls and reloads of a behaviour
MaxHandles == 3             \* session handles the gateway issues

Callers == 1..MaxCalls
ConnectionIds == {"c1", "c2"}
TypedNames == {"my-session"}

SessionInfo(n, h, c) == [name |-> n, handle |-> h, connectionId |-> c]

\* !value of a handle
Falsy(h) == h \in {Undefined, EmptyHandle}

Handles(sess) == {sess[i].handle : i \in DOMAIN sess}

\* SessionManager.getSession
getSession(handle) ==
    IF handle \in Handles(_sessions)
    THEN _sessions[CHOOSE i \in DOMAIN _sessions :
                     /\ _sessions[i].handle = handle
                     /\ \A j \in DOMAIN _sessions : _sessions[j].handle = handle => i <= j]
    ELSE SessionInfo(NoName, Undefined, NoConnection)

\* ConnectionManager.getConnection(id) finds a connection
getConnection(id) == \E i \in DOMAIN connections : connections[i] = id

\* SessionManager.getClientForSession(handle) returns a client
getClientForSession(handle) ==
    /\ handle \in Handles(_sessions)
    /\ getConnection(getSession(handle).connectionId)

Filter(sess, handle) == SelectSeq(sess, LAMBDA s : s.handle # handle)

\* Where workspaceState answers an update at once, and the gateway fails a
\* liveness request by answering with an error status.
Settled == [updates |-> "at once", outage |-> "status"]

\* A _saveSessions that hands over the active handle only.
_saveSessionsHandleOnly(list, active, awaited) ==
    /\ UNCHANGED flinkSessionsList
    /\ IF workbench.updates = "at once"
       THEN /\ flinkActiveSessionHandle' = active
            /\ UNCHANGED saves
       ELSE /\ UNCHANGED flinkActiveSessionHandle
            /\ saves' = IF awaited THEN saves ELSE saves + 1

\* SessionManager._saveSessions up to its first await: the list, as it is at
\* the call, is handed to workspaceState.update.  The active handle is handed
\* over after that await, as it is then.  Where workspaceState answers at
\* once, the handle is handed over before anything else happens.  awaited:
\* the caller awaits the save.
_saveSessions(list, active, awaited) ==
    /\ flinkSessionsList' = list
    /\ IF workbench.updates = "at once"
       THEN /\ flinkActiveSessionHandle' = active
            /\ UNCHANGED saves
       ELSE /\ UNCHANGED flinkActiveSessionHandle
            /\ saves' = IF awaited THEN saves ELSE saves + 1

\* _removeSession with the last remaining session promoted instead of the
\* first.
_removeSessionPromotesLast(handle) ==
    LET rest == Filter(_sessions, handle) IN
    /\ _sessions' = rest
    /\ _activeSessionHandle' =
         IF _activeSessionHandle = handle
         THEN (IF Len(rest) > 0 THEN rest[Len(rest)].handle ELSE Undefined)
         ELSE _activeSessionHandle
    /\ _saveSessions(rest, _activeSessionHandle', FALSE)

\* SessionManager._removeSession: its _saveSessions is not awaited.
_removeSession(handle) ==
    LET rest == Filter(_sessions, handle) IN
    /\ _sessions' = rest
    /\ _activeSessionHandle' =
         IF _activeSessionHandle = handle
         THEN (IF Len(rest) > 0 THEN rest[1].handle ELSE Undefined)
         ELSE _activeSessionHandle
    /\ _saveSessions(rest, _activeSessionHandle', FALSE)

IdleCall ==
    [op |-> "idle", pc |-> "idle", via |-> "direct", name |-> NoName,
     connectionId |-> NoConnection, arg |-> Undefined, connItems |-> <<>>,
     sessItems |-> {}, result |-> Undefined, ok |-> FALSE, thrown |-> FALSE,
     recovered |-> FALSE, staleConn |-> NoConnection, created |-> Undefined,
     validated |-> Undefined, asked |-> NoConnection, overlaps |-> FALSE]

Return(rec, v) == [rec EXCEPT !.pc = "done", !.result = v]

Thrown(rec) == [rec EXCEPT !.pc = "done", !.thrown = TRUE]

\* The value reaches the caller: getActiveSessionHandle throws when the
\* pickSession it awaited gave nothing.
Complete(rec, v) ==
    IF rec.op = "getActiveSessionHandle" /\ rec.via = "pickSession" /\ Falsy(v)
    THEN Thrown(rec)
    ELSE Return(rec, v)

\* createSession from the name on: prompt for one unless it was given.
NameStep(rec, name, conn) ==
    IF name = NoName
    THEN [rec EXCEPT !.pc = "inputName", !.connectionId = conn]
    ELSE [rec EXCEPT !.pc = "creating", !.connectionId = conn, !.name = name]

\* createSession(name, connectionId) up to its first await; asked keeps the
\* connectionId it was called with.
createSession(call, name, connectionId) ==
    LET rec == [call EXCEPT !.asked = connectionId] IN
    IF connectionId # NoConnection /\ getConnection(connectionId)
    THEN NameStep(rec, name, connectionId)
    ELSE IF Len(connections) = 0 THEN Complete(rec, EmptyHandle)
    ELSE IF Len(connections) = 1 THEN NameStep(rec, name, connections[1])
    ELSE [rec EXCEPT !.pc = "pickConnection", !.name = name, !.connItems = connections]

FreeCaller(c) ==
    /\ started < MaxOps
    /\ calls[c].op = "idle"
    /\ \A d \in Callers : d < c => calls[d].op # "idle"

Begin(c, rec) ==
    /\ calls' = [calls EXCEPT ![c] = rec]
    /\ started' = started + 1

\* No cell execution is in flight.
EngineIdle ==
    /\ cell = <<>>
    /\ gateway = Bounded
    /\ pc = "ended"
    /\ sessionHandle = "unset"
    /\ statements = <<>>
    /\ hasCreateStatement = FALSE
    /\ stmtIdx = 0
    /\ cancelRequested = FALSE
    /\ ended = "success"
    /\ fired = 0
    /\ outputs = <<>>
    /\ resultType = "none"
    /\ isStreaming = FALSE
    /\ allResults = <<>>
    /\ readyRetries = 0
    /\ token = 0
    /\ batchRetries = 0
    /\ currentToken = 0
    /\ pollCount = 0
    /\ consecutiveEmpty = 0
    /\ totalRows = 0
    /\ rowsServed = 0
    /\ fetchesLeft = 0
    /\ rowPagesLeft = 0
    /\ submitted = <<>>
    /\ outcome = <<>>
    /\ fetchCount = 0
    /\ nPublish = 0
    /\ nComplete = 0
    /\ remoteCancels = 0
    /\ cancelSeen = FALSE
    /\ mode = "none"
    /\ firstPage = "none"
    /\ lastAnswer = NoAnswer
    /\ lastPage = NoPage
    /\ errorsInRow = 0

\* No registry call is in flight and none is started.
RegistryIdle ==
    /\ connections = <<"c1">>
    /\ _sessions = <<>>
    /\ _activeSessionHandle = Undefined
    /\ issued = 0
    /\ calls = [c \in Callers |-> IdleCall]
    /\ started = 0
    /\ flinkSessionsList = <<>>
    /\ flinkActiveSessionHandle = Undefined
    /\ saves = 0
    /\ workbench = Settled

\* The constructors: the connections loaded (at least one, by migration), the
\* saved sessions loaded, the first of them active.
Constructed ==
    /\ EngineIdle
    /\ CacheIdle
    /\ ClientIdle
    /\ connections \in {<<"c1">>, <<"c1", "c2">>}
    /\ \E n \in 0..2 :
         /\ _sessions = [i \in 1..n |-> SessionInfo("saved", i, connections[1])]
         /\ _activeSessionHandle = IF n > 0 THEN 1 ELSE Undefined
         /\ issued = n
    /\ calls = [c \in Callers |-> IdleCall]
    /\ started = 0
    /\ flinkSessionsList = _sessions
    /\ flinkActiveSessionHandle = _activeSessionHandle
    /\ saves = 0

SessionInit == Constructed /\ workbench = Settled

\* Some getActiveSessionHandle call has its liveness check of this handle in
\* flight.
CheckInFlight(handle) ==
    \E d \in Callers : calls[d].pc = "checkSession" /\ calls[d].arg = handle

\* getActiveSessionHandle up to its first await (lines 82-104); overlaps keeps
\* whether another call's check of the same handle is in flight.
StartGetActiveSessionHandle(c) ==
    LET rec == [IdleCall EXCEPT !.op = "getActiveSessionHandle"] IN
    /\ FreeCaller(c)
    /\ IF Falsy(_activeSessionHandle)
       THEN /\ IF Len(_sessions) = 0
               THEN Begin(c, createSession(rec, NoName, NoConnection))
               ELSE Begin(c, [rec EXCEPT !.pc = "pickSession", !.via = "pickSession",
                                         !.sessItems = Handles(_sessions)])
            /\ UNCHANGED <<_sessions, _activeSessionHandle, storeVars>>
       ELSE IF ~getClientForSession(_activeSessionHandle)
       THEN /\ _removeSession(_activeSessionHandle)
            /\ Begin(c, Thrown(rec))
       ELSE /\ Begin(c, [rec EXCEPT !.pc = "checkSession",
                                    !.arg = _activeSessionHandle,
                                    !.staleConn = getSession(_activeSessionHandle).connectionId,
                                    !.overlaps = CheckInFlight(_activeSessionHandle)])
            /\ UNCHANGED <<_sessions, _activeSessionHandle, storeVars>>
    /\ UNCHANGED <<connections, issued, workbench, outsideRegistry>>

\* client.checkSession answers: the gateway knows the session ("ok"), or the
\* request fails as requests fail in this behaviour, by an error status or on
\* the network; any failure is "not valid".  The code after the await reads
\* this._activeSessionHandle
\* again.
CheckSessionResponse(c) ==
    LET rec == calls[c] IN
    /\ rec.pc = "checkSession"
    /\ \E answer \in {"ok", workbench.outage} :
         /\ IF answer # "ok"
            THEN LET connectionId == getSession(_activeSessionHandle).connectionId IN
                 /\ _removeSession(_activeSessionHandle)
                 /\ calls' = [calls EXCEPT ![c] =
                        createSession([rec EXCEPT !.recovered = TRUE], "default", connectionId)]
            ELSE /\ calls' = [calls EXCEPT ![c] =
                        Return([rec EXCEPT !.validated = rec.arg], _activeSessionHandle)]
                 /\ UNCHANGED <<_sessions, _activeSessionHandle, storeVars>>
    /\ UNCHANGED <<connections, issued, started, workbench, outsideRegistry>>

\* The commands flinkSessions.create and flink.createSession.
StartCreateSession(c) ==
    /\ FreeCaller(c)
    /\ Begin(c, createSession([IdleCall EXCEPT !.op = "createSession"], NoName, NoConnection))
    /\ UNCHANGED <<connections, _sessions, _activeSessionHandle, issued, storeVars,
                   workbench, outsideRegistry>>

\* The quick pick of pickConnection closes.
PickConnectionResponse(c) ==
    LET rec == calls[c] IN
    /\ rec.pc = "pickConnection"
    /\ \/ calls' = [calls EXCEPT ![c] = Complete(rec, EmptyHandle)]
       \/ \E i \in DOMAIN rec.connItems :
            calls' = [calls EXCEPT ![c] = NameStep(rec, rec.name, rec.connItems[i])]
    /\ UNCHANGED <<connections, _sessions, _activeSessionHandle, issued, started,
                   storeVars, workbench, outsideRegistry>>

\* The input box for the session name closes.
InputNameResponse(c) ==
    LET rec == calls[c] IN
    /\ rec.pc = "inputName"
    /\ \E name \in TypedNames \cup {NoName} :
         calls' = [calls EXCEPT ![c] =
                     IF name = NoName THEN Complete(rec, EmptyHandle)
                     ELSE [rec EXCEPT !.pc = "creating", !.name = name]]
    /\ UNCHANGED <<connections, _sessions, _activeSessionHandle, issued, started,
                   storeVars, workbench, outsideRegistry>>

\* The gateway answers POST /sessions: the session is pushed and made active,
\* and _setAsActive calls _saveSessions (lines 150-160, 216-218), or the error
\* is rethrown.
CreateSessionResponse(c) ==
    LET rec == calls[c] IN
    /\ rec.pc = "creating"
    /\ \/ /\ issued < MaxHandles
          /\ issued' = issued + 1
          /\ _sessions' = Append(_sessions, SessionInfo(rec.name, issued + 1, rec.connectionId))
          /\ _activeSessionHandle' = issued + 1
          /\ _saveSessions(_sessions', _activeSessionHandle', TRUE)
          /\ calls' = [calls EXCEPT ![c] =
                         [rec EXCEPT !.pc = "saving", !.result = issued + 1,
                                     !.created = issued + 1]]
       \/ /\ calls' = [calls EXCEPT ![c] = Thrown(rec)]
          /\ UNCHANGED <<_sessions, _activeSessionHandle, issued, storeVars>>
    /\ UNCHANGED <<connections, started, workbench, outsideRegistry>>

\* The _saveSessions a call awaits goes on after its first update (line 51):
\* the active handle, as it is now, is handed to workspaceState.update.  After
\* _setAsActive, createSession calls _saveSessions once more (line 161), which
\* hands the list over again; any other call returns the handle.
SaveDone(c) ==
    LET rec == calls[c] IN
    /\ rec.pc \in {"saving", "saving again"}
    /\ flinkActiveSessionHandle' =
         IF workbench.updates = "later" THEN _activeSessionHandle ELSE flinkActiveSessionHandle
    /\ flinkSessionsList' =
         IF rec.pc = "saving" /\ rec.created # Undefined THEN _sessions ELSE flinkSessionsList
    /\ calls' = [calls EXCEPT ![c] =
                   IF rec.pc = "saving" /\ rec.created # Undefined
                   THEN [rec EXCEPT !.pc = "saving again"]
                   ELSE Complete(rec, rec.result)]
    /\ UNCHANGED <<connections, _sessions, _activeSessionHandle, issued, started, saves,
                   workbench, outsideRegistry>>

\* A _saveSessions nobody awaits goes on after its first update (line 51).
SaveGoesOn ==
    /\ saves > 0
    /\ saves' = saves - 1
    /\ flinkActiveSessionHandle' = _activeSessionHandle
    /\ UNCHANGED <<connections, _sessions, _activeSessionHandle, issued, calls, started,
                   flinkSessionsList, workbench, outsideRegistry>>

\* The command flink.selectSession: pickSession shows its items.
StartPickSession(c) ==
    /\ FreeCaller(c)
    /\ Begin(c, [IdleCall EXCEPT !.op = "pickSession", !.pc = "pickSession",
                                 !.sessItems = Handles(_sessions)])
    /\ UNCHANGED <<connections, _sessions, _activeSessionHandle, issued, storeVars,
                   workbench, outsideRegistry>>

\* The quick pick of pickSession closes (lines 192-204).
PickSessionResponse(c) ==
    LET rec == calls[c] IN
    /\ rec.pc = "pickSession"
    /\ \/ /\ calls' = [calls EXCEPT ![c] = Complete(rec, Undefined)]
          /\ UNCHANGED <<_activeSessionHandle, storeVars>>
       \/ /\ calls' = [calls EXCEPT ![c] = createSession(rec, NoName, NoConnection)]
          /\ UNCHANGED <<_activeSessionHandle, storeVars>>
       \/ \E handle \in rec.sessItems :
            /\ _activeSessionHandle' = handle
            /\ _saveSessions(_sessions, handle, TRUE)
            /\ calls' = [calls EXCEPT ![c] = [rec EXCEPT !.pc = "saving", !.result = handle]]
    /\ UNCHANGED <<connections, _sessions, issued, started, workbench, outsideRegistry>>

\* The command flinkSessions.setActive on a tree item; the _saveSessions of
\* its _setAsActive goes on by itself.
setActiveSession(handle) ==
    /\ started < MaxOps
    /\ started' = started + 1
    /\ IF handle \in Handles(_sessions)
       THEN /\ _activeSessionHandle' = handle
            /\ _saveSessions(_sessions, handle, FALSE)
       ELSE UNCHANGED <<_activeSessionHandle, storeVars>>
    /\ UNCHANGED <<connections, _sessions, issued, calls, workbench, outsideRegistry>>

\* The command flinkSessions.remove on a tree item, up to the modal.
StartRemoveSession(c, handle) ==
    LET rec == [IdleCall EXCEPT !.op = "removeSession", !.arg = handle] IN
    /\ FreeCaller(c)
    /\ Begin(c, IF Len(_sessions) = 1 \/ handle \notin Handles(_sessions)
                THEN [rec EXCEPT !.pc = "done"]
                ELSE [rec EXCEPT !.pc = "confirm"])
    /\ UNCHANGED <<connections, _sessions, _activeSessionHandle, issued, storeVars,
                   workbench, outsideRegistry>>

\* The modal closes (lines 239-245).
ConfirmRemoveResponse(c) ==
    LET rec == calls[c] IN
    /\ rec.pc = "confirm"
    /\ \/ /\ _removeSession(rec.arg)
          /\ calls' = [calls EXCEPT ![c] = [rec EXCEPT !.pc = "done", !.ok = TRUE]]
       \/ /\ calls' = [calls EXCEPT ![c] = [rec EXCEPT !.pc = "done"]]
          /\ UNCHANGED <<_sessions, _activeSessionHandle, storeVars>>
    /\ UNCHANGED <<connections, issued, started, workbench, outsideRegistry>>

\* ConnectionManager.removeConnection
removeConnection(id) == connections' = SelectSeq(connections, LAMBDA x : x # id)

\* The command flinkConnections.remove on a tree item: promptRemoveConnection
\* up to the modal.
StartPromptRemoveConnection(c, id) ==
    LET rec == [IdleCall EXCEPT !.op = "promptRemoveConnection", !.connectionId = id] IN
    /\ FreeCaller(c)
    /\ Begin(c, IF ~getConnection(id) \/ Len(connections) = 1
                THEN [rec EXCEPT !.pc = "done"]
                ELSE [rec EXCEPT !.pc = "confirmConnection"])
    /\ UNCHANGED <<connections, _sessions, _activeSessionHandle, issued, storeVars,
                   workbench, outsideRegistry>>

\* The modal of promptRemoveConnection closes.
ConfirmRemoveConnectionResponse(c) ==
    LET rec == calls[c] IN
    /\ rec.pc = "confirmConnection"
    /\ \/ /\ removeConnection(rec.connectionId)
          /\ calls' = [calls EXCEPT ![c] = [rec EXCEPT !.pc = "done", !.ok = TRUE]]
       \/ /\ calls' = [calls EXCEPT ![c] = [rec EXCEPT !.pc = "done"]]
          /\ UNCHANGED connections
    /\ UNCHANGED <<_sessions, _activeSessionHandle, issued, started, storeVars,
                   workbench, outsideRegistry>>

\* The caller has its answer.
Release(c) ==
    /\ calls[c].pc = "done"
    /\ calls' = [calls EXCEPT ![c] = IdleCall]
    /\ UNCHANGED <<connections, _sessions, _activeSessionHandle, issued, started,
                   storeVars, workbench, outsideRegistry>>

SessionNext ==
    \/ \E c \in Callers : StartGetActiveSessionHandle(c)
    \/ \E c \in Callers : CheckSessionResponse(c)
    \/ \E c \in Callers : StartCreateSession(c)
    \/ \E c \in Callers : PickConnectionResponse(c)
    \/ \E c \in Callers : InputNameResponse(c)
    \/ \E c \in Callers : CreateSessionResponse(c)
    \/ \E c \in Callers : SaveDone(c)
    \/ \E c \in Callers : StartPickSession(c)
    \/ \E c \in Callers : PickSessionResponse(c)
    \/ \E h \in 1..MaxHandles : h <= issued /\ setActiveSession(h)
    \/ \E c \in Callers, h \in 1..MaxHandles : h <= issued /\ StartRemoveSession(c, h)
    \/ \E c \in Callers : ConfirmRemoveResponse(c)
    \/ \E c \in Callers, id \in ConnectionIds : StartPromptRemoveConnection(c, id)
    \/ \E c \in Callers : ConfirmRemoveConnectionResponse(c)
    \/ \E c \in Callers : Release(c)

SessionSpec == SessionInit /\ [][SessionNext]_vars

(***************************************************************************)
(* The registry with one connection over window reloads: the extension is *)
(* activated anew and the SessionManager constructed from what             *)
(* workspaceState holds; whatever was in flight in the old extension host  *)
(* is gone.                                                                *)
(***************************************************************************)
\* SessionManager._loadSessions
_loadSessions ==
    /\ _sessions' = flinkSessionsList
    /\ _activeSessionHandle' =
         IF Len(flinkSessionsList) > 0 /\ Falsy(flinkActiveSessionHandle)
         THEN flinkSessionsList[1].handle
         ELSE flinkActiveSessionHandle

\* new SessionManager(context, connectionManager) in a new extension host.
Reload ==
    /\ started < MaxOps
    /\ started' = started + 1
    /\ _loadSessions
    /\ calls' = [c \in Callers |-> IdleCall]
    /\ saves' = 0
    /\ UNCHANGED <<connections, issued, flinkSessionsList, flinkActiveSessionHandle,
                   workbench, outsideRegistry>>

\* The operations on sessions; the one connection stays.
ReloadNext ==
    \/ \E c \in Callers : StartGetActiveSessionHandle(c)
    \/ \E c \in Callers : CheckSessionResponse(c)
    \/ \E c \in Callers : StartCreateSession(c)
    \/ \E c \in Callers : InputNameResponse(c)
    \/ \E c \in Callers : CreateSessionResponse(c)
    \/ \E c \in Callers : SaveDone(c)
    \/ \E c \in Callers : StartPickSession(c)
    \/ \E c \in Callers : PickSessionResponse(c)
    \/ \E h \in 1..MaxHandles : h <= issued /\ setActiveSession(h)
    \/ \E c \in Callers, h \in 1..MaxHandles : h <= issued /\ StartRemoveSession(c, h)
    \/ \E c \in Callers : ConfirmRemoveResponse(c)
    \/ \E c \in Callers : Release(c)
    \/ SaveGoesOn
    \/ Reload

\* workspaceState answers an update after other events may have happened.
Unsettled == [updates |-> "later", outage |-> "status"]

ReloadInit == Constructed /\ workbench = Unsettled /\ connections = <<"c1">>

ReloadSpec == ReloadInit /\ [][ReloadNext]_vars

(***************************************************************************)
(* The registry with a gateway that is not always reached: a liveness      *)
(* request that fails, fails in fetch, on the network.                     *)
(***************************************************************************)
Unreachable == [updates |-> "at once", outage |-> "network"]

OutageInit == Constructed /\ workbench = Unreachable

OutageSpec == OutageInit /\ [][SessionNext]_vars


(***************************************************************************)
(* The metadata caches at work.                                            *)
(***************************************************************************)
\* The fetches of a key that have not settled.
InFlight(key) ==
    {f \in DOMAIN fetches : fetches[f].key = key /\ fetches[f].state = "inflight"}

\* The request as its caller sees it: the fetch whose result it receives,
\* whether it started that fetch, and what it found when it was made.
Request(key, f, st, hit) ==
    [key |-> key, fetch |-> f, started |-> st, cachedAtStart |-> hit,
     inflightAtStart |-> InFlight(key)]

\* The fetcher is called: the remote call is on its way.
StartFetch(key) == fetches' = Append(fetches, [key |-> key, state |-> "inflight"])

Settle(f, st) == fetches' = [fetches EXCEPT ![f].state = st]

CacheInit ==
    /\ EngineIdle
    /\ RegistryIdle
    /\ ClientIdle
    /\ provider \in Providers
    /\ cache = [k \in Keys |-> Nothing]
    /\ pendingRequests = [k \in Keys |-> NoFetch]
    /\ fetches = <<>>
    /\ requests = <<>>

\* FlinkCatalogProvider.cachedFetch (part_000 lines 714-742).
cachedFetch(key) ==
    LET hit == cache[key].kind = "data" /\ cache[key].fresh
        f == Len(fetches) + 1
    IN
    /\ provider = "cachedFetch"
    /\ Len(requests) < MaxRequests
    /\ IF hit
       THEN /\ requests' = Append(requests, Request(key, cache[key].fetch, FALSE, hit))
            /\ UNCHANGED <<fetches, pendingRequests>>
       ELSE IF pendingRequests[key] # NoFetch
       THEN /\ requests' = Append(requests, Request(key, pendingRequests[key], FALSE, hit))
            /\ UNCHANGED <<fetches, pendingRequests>>
       ELSE /\ StartFetch(key)
            /\ pendingRequests' = [pendingRequests EXCEPT ![key] = f]
            /\ requests' = Append(requests, Request(key, f, TRUE, hit))
    /\ UNCHANGED <<provider, cache, outsideCache>>

\* The then handler of cachedFetch: the data is cached, the key's pending
\* request deleted.
FetchFulfilled(f) ==
    /\ provider = "cachedFetch"
    /\ f \in DOMAIN fetches
    /\ fetches[f].state = "inflight"
    /\ Settle(f, "resolved")
    /\ cache' = [cache EXCEPT ![fetches[f].key] = Data(f)]
    /\ pendingRequests' = [pendingRequests EXCEPT ![fetches[f].key] = NoFetch]
    /\ UNCHANGED <<provider, requests, outsideCache>>

\* The catch handler of cachedFetch: the key's pending request and cache
\* entry are deleted.
FetchRejected(f) ==
    /\ provider = "cachedFetch"
    /\ f \in DOMAIN fetches
    /\ fetches[f].state = "inflight"
    /\ Settle(f, "failed")
    /\ cache' = [cache EXCEPT ![fetches[f].key] = Nothing]
    /\ pendingRequests' = [pendingRequests EXCEPT ![fetches[f].key] = NoFetch]
    /\ UNCHANGED <<provider, requests, outsideCache>>

\* CACHE_TTL_MS has passed since the entry's timestamp.
TtlElapses(key) ==
    /\ provider = "cachedFetch"
    /\ cache[key].kind = "data"
    /\ cache[key].fresh
    /\ cache' = [cache EXCEPT ![key].fresh = FALSE]
    /\ UNCHANGED <<provider, pendingRequests, fetches, requests, outsideCache>>

\* refresh() of the explorer (on a change of the active session, on the
\* refresh command), clearCache() of the completion provider.
refresh ==
    /\ \E k \in Keys : cache[k] # Nothing \/ pendingRequests[k] # NoFetch
    /\ cache' = [k \in Keys |-> Nothing]
    /\ pendingRequests' = [k \in Keys |-> NoFetch]
    /\ UNCHANGED <<provider, fetches, requests, outsideCache>>

\* FlinkCatalogProvider.cached (catalogProvider.ts lines 242-251).
cached(key) ==
    LET hit == cache[key].kind = "promise" /\ fetches[cache[key].fetch].state # "inflight"
        f == Len(fetches) + 1
    IN
    /\ provider = "cached"
    /\ Len(requests) < MaxRequests
    /\ IF cache[key].kind = "nothing"
       THEN /\ StartFetch(key)
            /\ cache' = [cache EXCEPT ![key] = Promise(f)]
            /\ requests' = Append(requests, Request(key, f, TRUE, hit))
       ELSE /\ requests' = Append(requests, Request(key, cache[key].fetch, FALSE, hit))
            /\ UNCHANGED <<fetches, cache>>
    /\ UNCHANGED <<provider, pendingRequests, outsideCache>>

\* The fetcher given to cached returns: getRoot, fetchDatabases and
\* fetchObjectsWithKind catch the failure of the remote call and return [],
\* so the promise is fulfilled either way and the catch handler of cached
\* does not run.
FetcherReturns(f) ==
    /\ provider = "cached"
    /\ f \in DOMAIN fetches
    /\ fetches[f].state = "inflight"
    /\ \E st \in {"resolved", "failed"} : Settle(f, st)
    /\ UNCHANGED <<provider, cache, pendingRequests, requests, outsideCache>>

\* FlinkSqlCompletionItemProvider.getCatalogs; getDatabases, getTables,
\* getColumns and getColumnsGeneric are the same with their keys.
getCatalogs(key) ==
    LET hit == cache[key].kind = "data"
        f == Len(fetches) + 1
    IN
    /\ provider = "metadataCache"
    /\ Len(requests) < MaxRequests
    /\ IF hit
       THEN /\ requests' = Append(requests, Request(key, cache[key].fetch, FALSE, hit))
            /\ UNCHANGED fetches
       ELSE /\ StartFetch(key)
            /\ requests' = Append(requests, Request(key, f, TRUE, hit))
    /\ UNCHANGED <<provider, cache, pendingRequests, outsideCache>>

\* The remote call of getCatalogs returns: metadataCache.set(key, result).
ListFulfilled(f) ==
    /\ provider = "metadataCache"
    /\ f \in DOMAIN fetches
    /\ fetches[f].state = "inflight"
    /\ Settle(f, "resolved")
    /\ cache' = [cache EXCEPT ![fetches[f].key] = Data(f)]
    /\ UNCHANGED <<provider, pendingRequests, requests, outsideCache>>

\* The remote call of getCatalogs fails: catch (e) { return []; }
ListRejected(f) ==
    /\ provider = "metadataCache"
    /\ f \in DOMAIN fetches
    /\ fetches[f].state = "inflight"
    /\ Settle(f, "failed")
    /\ UNCHANGED <<provider, cache, pendingRequests, requests, outsideCache>>

CacheNext ==
    \/ \E k \in Keys : cachedFetch(k)
    \/ \E f \in 1..MaxRequests : FetchFulfilled(f)
    \/ \E f \in 1..MaxRequests : FetchRejected(f)
    \/ \E k \in Keys : TtlElapses(k)
    \/ refresh
    \/ \E k \in Keys : cached(k)
    \/ \E f \in 1..MaxRequests : FetcherReturns(f)
    \/ \E k \in Keys : getCatalogs(k)
    \/ \E f \in 1..MaxRequests : ListFulfilled(f)
    \/ \E f \in 1..MaxRequests : ListRejected(f)

CacheSpec == CacheInit /\ [][CacheNext]_vars

(***************************************************************************)
(* FlinkGatewayClient.request on a response that is not ok.                *)
(***************************************************************************)
ClientInit ==
    /\ EngineIdle
    /\ RegistryIdle
    /\ CacheIdle
    /\ response \in [status : Statuses, body : Bodies]
    /\ raised = NoError
    /\ cancelCall = NoCancelCall
    /\ metaCall = NoMetaCall

\* if (!response.ok) { this.handleErrorResponse(response.status, text) }: the
\* error thrown passes through the catch of request as it is.
RequestFails ==
    /\ raised = NoError
    /\ raised' = handleErrorResponse(response.status, response.body)
    /\ UNCHANGED <<response, cancelCall, metaCall, outsideClient>>

ClientNext == RequestFails

ClientSpec == ClientInit /\ [][ClientNext]_vars

(***************************************************************************)
(* FlinkGatewayClient.cancelOperation(sessionHandle, statementHandle,      *)
(* jobId?), with cancelJob.  A request that is not answered ok raises an   *)
(* error in request(); what is caught and only logged is kept in logged.   *)
(***************************************************************************)
CancelInit ==
    /\ EngineIdle
    /\ RegistryIdle
    /\ CacheIdle
    /\ response = NoResponse
    /\ raised = NoError
    /\ metaCall = NoMetaCall
    /\ \E j \in BOOLEAN, a \in [job : JobAnswers, cancel : CancelAnswers, close : CloseAnswers] :
         cancelCall = [NoCancelCall EXCEPT !.pc = "called", !.jobId = j, !.answers = a]

\* A catch of cancelOperation that throws what it caught, unless the
\* operation had already finished.
CaughtRethrown(call, answer) ==
    IF answer \in {"status FINISHED", "status CANCELED"}
    THEN [call EXCEPT !.pc = "returned", !.logged = Append(@, "already finished")]
    ELSE [call EXCEPT !.pc = "returned", !.thrown = TRUE]

\* catch (error) of cancelOperation, lines 286-294: nothing is thrown.
Caught(call, answer) ==
    [call EXCEPT !.pc = "returned",
                 !.logged = Append(@, IF answer \in {"status FINISHED", "status CANCELED"}
                                      THEN "already finished" ELSE "warn cancel")]

\* if (jobId) { await this.cancelJob(jobId) }, then the cancel request is made.
CallCancelOperation ==
    /\ cancelCall.pc = "called"
    /\ cancelCall' = IF cancelCall.jobId
                     THEN [cancelCall EXCEPT !.pc = "job", !.requests = Append(@, "job")]
                     ELSE [cancelCall EXCEPT !.pc = "cancel", !.requests = Append(@, "cancel")]
    /\ UNCHANGED <<response, raised, metaCall, outsideClient>>

\* cancelJob's PATCH is answered (lines 175-187): whatever the answer, it is
\* only logged; then the cancel request is made.
CancelJobResponse ==
    /\ cancelCall.pc = "job"
    /\ cancelCall' = [cancelCall EXCEPT
                        !.pc = "cancel",
                        !.logged = IF cancelCall.answers.job = "ok" THEN @
                                   ELSE Append(@, "warn job"),
                        !.requests = Append(@, "cancel")]
    /\ UNCHANGED <<response, raised, metaCall, outsideClient>>

\* The cancel request is answered (lines 275-277, 286-294): ok, and the close
\* request is made; or an error, which is caught.
CancelResponse ==
    /\ cancelCall.pc = "cancel"
    /\ cancelCall' = IF cancelCall.answers.cancel = "ok"
                     THEN [cancelCall EXCEPT !.pc = "close", !.requests = Append(@, "close")]
                     ELSE Caught(cancelCall, cancelCall.answers.cancel)
    /\ UNCHANGED <<response, raised, metaCall, outsideClient>>

\* The close request is answered (lines 280-285): an error is ignored.
CloseResponse ==
    /\ cancelCall.pc = "close"
    /\ cancelCall' = [cancelCall EXCEPT !.pc = "returned"]
    /\ UNCHANGED <<response, raised, metaCall, outsideClient>>

CancelNext ==
    \/ CallCancelOperation
    \/ CancelJobResponse
    \/ CancelResponse
    \/ CloseResponse

CancelSpec == CancelInit /\ [][CancelNext]_vars

(***************************************************************************)
(* FlinkGatewayClient.executeMetadataSql (runQuery).  A row is known by    *)
(* its JSON text.  The gateway answers a result fetch with a page of any   *)
(* type, with any rows, carrying the next token or none, or the request    *)
(* fails.                                                                  *)
(***************************************************************************)
MetadataPages(tok) ==
    {[resultType |-> "NOT_READY", results |-> <<>>, nextResultToken |-> n] :
        n \in {NoToken, tok + 1}}
    \cup [resultType : {"PAYLOAD", "EOS"}, results : PagesOfRows,
          nextResultToken : {NoToken, tok + 1}]

\* Lines 324-335: the rows, each at its first occurrence.
RECURSIVE uniqueRowsFrom(_, _)
uniqueRowsFrom(rows, unique) ==
    IF rows = <<>> THEN unique
    ELSE uniqueRowsFrom(Tail(rows),
                        IF \E i \in DOMAIN unique : unique[i] = Head(rows)
                        THEN unique ELSE Append(unique, Head(rows)))

uniqueRows(rows) == uniqueRowsFrom(rows, <<>>)

MetadataInit ==
    /\ EngineIdle
    /\ RegistryIdle
    /\ CacheIdle
    /\ response = NoResponse
    /\ raised = NoError
    /\ cancelCall = NoCancelCall
    /\ metaCall = [NoMetaCall EXCEPT !.pc = "execute"]

\* executeStatement answers (line 306): the first fetch, of token 0, is made
\* (line 310), or the error reaches the caller.
MetadataStatementResponse ==
    /\ metaCall.pc = "execute"
    /\ \/ metaCall' = [metaCall EXCEPT !.pc = "fetch", !.token = 0, !.fetches = 1]
       \/ metaCall' = [metaCall EXCEPT !.pc = "thrown"]
    /\ UNCHANGED <<response, raised, cancelCall, outsideClient>>

\* A result fetch answers (lines 310-335).  While the page is not an EOS page
\* and fewer than 20 retries were made, the next fetch is made, of the
\* page's nextResultToken or of token 0; otherwise the rows of this page,
\* without duplicates, are returned.  fetched keeps the distinct rows of all
\* the pages fetched, in fetch order.
MetadataFetchResponse ==
    /\ metaCall.pc = "fetch"
    /\ \/ metaCall' = [metaCall EXCEPT !.pc = "thrown"]
       \/ \E result \in MetadataPages(metaCall.token) :
            LET call == [metaCall EXCEPT
                            !.result = result,
                            !.fetched = uniqueRowsFrom(result.results, @)]
            IN
            metaCall' =
                IF result.resultType # "EOS" /\ metaCall.retries < maxMetadataRetries
                THEN [call EXCEPT
                        !.token = IF result.nextResultToken # NoToken
                                  THEN result.nextResultToken ELSE 0,
                        !.retries = @ + 1,
                        !.fetches = @ + 1]
                ELSE [call EXCEPT !.pc = "returned",
                                  !.returned = uniqueRows(result.results)]
    /\ UNCHANGED <<response, raised, cancelCall, outsideClient>>

MetadataNext == MetadataStatementResponse \/ MetadataFetchResponse

MetadataSpec == MetadataInit /\ [][MetadataNext]_vars


(***************************************************************************)
(* The gateway.  A result fetch for token tok either raises an error or    *)
(* returns a page.  A NOT_READY page carries no rows.  Once the gateway    *)
(* has answered MaxFetches fetches of a statement it answers EOS, or, for   *)
(* a statement that it has not yet answered with a ready page, NOT_READY   *)
(* from then on.  nrts                                                     *)
(* are the nextResultToken values it may send: none, or a token other     *)
(* than the next one (the stream loop never reads the field).             *)
(***************************************************************************)
Page(rt, n, nrt) ==
    [throws |-> FALSE, err |-> "none", resultType |-> rt, n |-> n, nextResultToken |-> nrt]

Throw(e) ==
    [throws |-> TRUE, err |-> e, resultType |-> "none", n |-> 0, nextResultToken |-> NoToken]

Responses(tok, nrts) ==
    IF fetchesLeft = 0
    THEN {Page(IF mode = "none" THEN "NOT_READY" ELSE gateway.tail, 0, NoToken)}
    ELSE {Throw(e) : e \in ErrorClasses}
         \cup {Page("NOT_READY", 0, NoToken)}
         \cup {Page(rt, n, nrt) :
                 rt \in ResultTypes \ {"NOT_READY"},
                 n \in (IF rowPagesLeft > 0 THEN PageSizes ELSE {0}),
                 nrt \in nrts}

\* What an answer to a fetch of token 0 is for the readiness loop.
PageKind(r) ==
    IF r.throws THEN "thrown"
    ELSE IF r.resultType \in {"NOT_READY", "EOS"} THEN r.resultType
    ELSE "ready"

\* The journal after the answer r to a fetch of token tok.  A fetch failed
\* when it raised an error or, in a polling loop, brought a page with
\* resultType ERROR.
Recorded(tok, r) ==
    LET failed == r.throws \/ (r.resultType = "ERROR" /\ mode # "none") IN
    IF gateway.journal
    THEN /\ lastAnswer' = [token |-> tok,
                           kind |-> IF r.throws THEN "thrown" ELSE r.resultType,
                           err |-> r.err]
         /\ lastPage' = IF failed THEN lastPage
                        ELSE [token |-> tok, nextResultToken |-> r.nextResultToken]
         /\ errorsInRow' = IF failed THEN errorsInRow + 1 ELSE 0
    ELSE UNCHANGED <<lastAnswer, lastPage, errorsInRow>>

\* The gateway's books after it answered r.
Served(r) ==
    /\ rowsServed' = rowsServed + r.n
    /\ fetchesLeft' = IF fetchesLeft > 0 THEN fetchesLeft - 1 ELSE 0
    /\ rowPagesLeft' = IF r.n > 0 THEN rowPagesLeft - 1 ELSE rowPagesLeft

\* What no step of a statement changes.
cellFixed == <<cell, gateway, sessionHandle, statements, hasCreateStatement, stmtIdx,
               cancelRequested, submitted, outsideEngine>>

(***************************************************************************)
(* Continuations shared by the handlers.                                   *)
(***************************************************************************)
Fire(n) == IF hasCreateStatement THEN n + 1 ELSE n

\* The locals of a statement's block.
Locals(rt, st, ar, rr, tk, br, ct, pl, ce, tr) ==
    /\ resultType' = rt
    /\ isStreaming' = st
    /\ allResults' = ar
    /\ readyRetries' = rr
    /\ token' = tk
    /\ batchRetries' = br
    /\ currentToken' = ct
    /\ pollCount' = pl
    /\ consecutiveEmpty' = ce
    /\ totalRows' = tr

\* The block of a statement is left: its locals are gone.
ScopeExit == Locals("none", FALSE, <<>>, 0, 0, 0, 0, 0, 0, 0)

\* A catch (stmtError) that appends the error output and does not rethrow:
\* the for loop goes on.
stmtErrorSwallowed(err, outs) ==
    /\ outputs' = Append(outs, ErrorOutput(err))
    /\ outcome' = [outcome EXCEPT ![stmtIdx] = @ \cup {"failed"}]
    /\ pc' = "stmtDone"
    /\ UNCHANGED <<ended, fired>>
    /\ ScopeExit

\* catch (stmtError): append the error output, rethrow; the outer catch ends
\* the execution unsuccessfully; finally fires the notification.
stmtError(err, outs) ==
    /\ outputs' = Append(outs, ErrorOutput(err))
    /\ outcome' = [outcome EXCEPT ![stmtIdx] = @ \cup {"failed"}]
    /\ ended' = "failure"
    /\ fired' = Fire(fired)
    /\ pc' = "ended"
    /\ ScopeExit

\* The statement goes on: the execution is neither ended nor failed.
Continue(nextPc) ==
    /\ pc' = nextPc
    /\ UNCHANGED <<ended, fired>>

\* The statement's block ends normally: its outcome is finished unless it was
\* canceled.
Finished(i) == [outcome EXCEPT ![i] = IF @ = {} THEN {"finished"} ELSE @]

Canceled(i) == [outcome EXCEPT ![i] = @ \cup {"canceled"}]

\* The state of _doExecution when it is called.
EngineStart ==
    /\ pc = "getSession"
    /\ sessionHandle = "unset"
    /\ statements = <<>>
    /\ hasCreateStatement = FALSE
    /\ stmtIdx = 0
    /\ cancelRequested = FALSE
    /\ ended = "running"
    /\ fired = 0
    /\ outputs = <<>>
    /\ resultType = "none"
    /\ isStreaming = FALSE
    /\ allResults = <<>>
    /\ readyRetries = 0
    /\ token = 0
    /\ batchRetries = 0
    /\ currentToken = 0
    /\ pollCount = 0
    /\ consecutiveEmpty = 0
    /\ totalRows = 0
    /\ rowsServed = 0
    /\ fetchesLeft = gateway.fetches
    /\ rowPagesLeft = gateway.rowPages
    /\ submitted = <<>>
    /\ outcome = <<>>
    /\ fetchCount = 0
    /\ nPublish = 0
    /\ nComplete = 0
    /\ remoteCancels = 0
    /\ cancelSeen = FALSE
    /\ mode = "none"
    /\ firstPage = "none"
    /\ lastAnswer = NoAnswer
    /\ lastPage = NoPage
    /\ errorsInRow = 0

Init ==
    /\ cell \in Cells
    /\ gateway = Bounded
    /\ EngineStart
    /\ RegistryIdle
    /\ CacheIdle
    /\ ClientIdle

\* The user stops the cell execution.
RequestCancel ==
    /\ pc # "ended"
    /\ ~cancelRequested
    /\ cancelRequested' = TRUE
    /\ UNCHANGED <<outsideEngine, cell, gateway, pc, sessionHandle, statements, hasCreateStatement, stmtIdx,
                   ended, fired, outputs, stmtVars, gatewayVars, historyVars>>

\* _doExecution up to the statement loop: the session, the split, the empty
\* cell, clearOutput.
GetSession ==
    /\ pc = "getSession"
    /\ \E r \in {"session-1", "", "throws"} :
         IF r = "throws"
         THEN /\ ended' = "failure"
              /\ fired' = Fire(fired)
              /\ pc' = "ended"
              /\ UNCHANGED <<sessionHandle, statements, hasCreateStatement, stmtIdx,
                             outputs, outcome>>
         ELSE LET stmts == SplitStatements(cell) IN
              /\ sessionHandle' = r
              /\ statements' = stmts
              /\ hasCreateStatement' = HasCreate(stmts)
              /\ outcome' = [i \in 1..Len(stmts) |-> {}]
              /\ IF Len(stmts) = 0
                 THEN /\ ended' = "success"
                      /\ fired' = IF HasCreate(stmts) THEN fired + 1 ELSE fired
                      /\ pc' = "ended"
                      /\ UNCHANGED <<stmtIdx, outputs>>
                 ELSE /\ outputs' = <<>>
                      /\ stmtIdx' = 1
                      /\ pc' = "submit"
                      /\ UNCHANGED <<ended, fired>>
    /\ UNCHANGED <<outsideEngine, cell, gateway, cancelRequested, stmtVars, gatewayVars, submitted,
                   fetchCount, nPublish, nComplete, remoteCancels, cancelSeen, mode,
                   firstPage, lastAnswer, lastPage, errorsInRow>>

\* client.executeStatement, then the first fetch of token 0 is issued.
ExecuteStatement ==
    /\ pc = "submit"
    /\ submitted' = Append(submitted, statements[stmtIdx])
    /\ rowsServed' = 0
    /\ fetchesLeft' = gateway.fetches
    /\ rowPagesLeft' = gateway.rowPages
    /\ nPublish' = 0
    /\ nComplete' = 0
    /\ remoteCancels' = 0
    /\ cancelSeen' = FALSE
    /\ mode' = "none"
    /\ firstPage' = "none"
    /\ lastAnswer' = NoAnswer
    /\ lastPage' = NoPage
    /\ errorsInRow' = 0
    /\ \/ /\ sessionHandle # ""
          /\ fetchCount' = 1
          /\ Continue("firstFetch")
          /\ UNCHANGED <<outputs, outcome, stmtVars>>
       \/ /\ fetchCount' = 0
          /\ \E e \in ErrorClasses : stmtError(e, outputs)
    /\ UNCHANGED <<outsideEngine, cell, gateway, sessionHandle, statements, hasCreateStatement, stmtIdx,
                   cancelRequested>>

\* A classification that enters the batch loop whatever the first page's
\* resultType is.
ClassifyNoEosTest(r, retries, q) ==
    LET rows == PageRows(rowsServed, r.n) IN
    /\ outputs' = <<createOutput(rows, IF q THEN Meta(TRUE, FALSE, NoOffset) ELSE NoMeta)>>
    /\ nPublish' = nPublish + 1
    /\ mode' = IF q THEN "stream" ELSE "batch"
    /\ UNCHANGED <<fetchCount, nComplete, remoteCancels, cancelSeen, outcome>>
    /\ IF q
       THEN /\ Locals(r.resultType, TRUE, rows, retries, token, batchRetries,
                      0, 0, 0, Len(rows))
            /\ Continue("streamHead")
       ELSE /\ Locals(r.resultType, FALSE, rows, retries,
                      IF r.nextResultToken # NoToken THEN r.nextResultToken ELSE 1,
                      0, currentToken, pollCount, consecutiveEmpty, totalRows)
            /\ Continue("batchHead")

\* Lines 111-201: the first ready page r is classified and published; q is
\* its isQueryResult.
Classify(r, retries, q) ==
    LET rows == PageRows(rowsServed, r.n) IN
    /\ outputs' = <<createOutput(rows, IF q THEN Meta(TRUE, FALSE, NoOffset) ELSE NoMeta)>>
    /\ nPublish' = nPublish + 1
    /\ mode' = IF q THEN "stream" ELSE "batch"
    /\ UNCHANGED <<fetchCount, nComplete, remoteCancels, cancelSeen>>
    /\ IF q
       THEN /\ Locals(r.resultType, TRUE, rows, retries, token, batchRetries,
                      0, 0, 0, Len(rows))
            /\ Continue("streamHead")
            /\ UNCHANGED outcome
       ELSE IF r.resultType # "EOS"
       THEN /\ Locals(r.resultType, FALSE, rows, retries,
                      IF r.nextResultToken # NoToken THEN r.nextResultToken ELSE 1,
                      0, currentToken, pollCount, consecutiveEmpty, totalRows)
            /\ Continue("batchHead")
            /\ UNCHANGED outcome
       ELSE /\ ScopeExit
            /\ Continue("stmtDone")
            /\ outcome' = Finished(stmtIdx)

\* new Error('Query timed out waiting for results. The job may still be
\* running in the background.'), by what its message says.
TimedOut == "timed out, the job may still be running"

\* A readiness loop that refetches once more: readyRetries <= maxReadyRetries.
ReadyLoopOneMore(r, retries, q) ==
    IF r.resultType = "NOT_READY"
    THEN /\ UNCHANGED <<nPublish, nComplete, remoteCancels, cancelSeen, mode>>
         /\ IF retries <= maxReadyRetries /\ ~cancelRequested
            THEN /\ Locals("NOT_READY", isStreaming, allResults, retries, token,
                           batchRetries, currentToken, pollCount, consecutiveEmpty,
                           totalRows)
                 /\ fetchCount' = fetchCount + 1
                 /\ Continue("readyWait")
                 /\ UNCHANGED <<outputs, outcome>>
            ELSE /\ UNCHANGED fetchCount
                 /\ stmtError(TimedOut, outputs)
    ELSE Classify(r, retries, q)

\* Lines 96-109: the readiness loop after the page r, with `retries` refetches
\* made so far.
ReadyLoop(r, retries, q) ==
    IF r.resultType = "NOT_READY"
    THEN /\ UNCHANGED <<nPublish, nComplete, remoteCancels, cancelSeen, mode>>
         /\ IF retries < maxReadyRetries /\ ~cancelRequested
            THEN /\ Locals("NOT_READY", isStreaming, allResults, retries, token,
                           batchRetries, currentToken, pollCount, consecutiveEmpty,
                           totalRows)
                 /\ fetchCount' = fetchCount + 1
                 /\ Continue("readyWait")
                 /\ UNCHANGED <<outputs, outcome>>
            ELSE /\ UNCHANGED fetchCount
                 /\ stmtError(TimedOut, outputs)
    ELSE Classify(r, retries, q)

\* The answer to the first fetch of token 0 (line 92).
FirstFetchResponse ==
    /\ pc = "firstFetch"
    /\ \E r \in Responses(0, {NoToken, 2}), q \in BOOLEAN :
         /\ Served(r)
         /\ firstPage' = PageKind(r)
         /\ Recorded(0, r)
         /\ IF r.throws
            THEN /\ stmtError(r.err, outputs)
                 /\ UNCHANGED <<fetchCount, nPublish, nComplete, remoteCancels,
                                cancelSeen, mode>>
            ELSE ReadyLoop(r, readyRetries, q)
    /\ UNCHANGED cellFixed

\* The answer to a refetch of token 0 (line 102).
ReadyRefetchResponse ==
    /\ pc = "readyWait"
    /\ \E r \in Responses(0, {NoToken, 2}), q \in BOOLEAN :
         /\ Served(r)
         /\ firstPage' = PageKind(r)
         /\ Recorded(0, r)
         /\ IF r.throws
            THEN /\ stmtError(r.err, outputs)
                 /\ UNCHANGED <<fetchCount, nPublish, nComplete, remoteCancels,
                                cancelSeen, mode>>
            ELSE ReadyLoop(r, readyRetries + 1, q)
    /\ UNCHANGED cellFixed

(***************************************************************************)
(* Batch polling, lines 142-191.                                           *)
(***************************************************************************)
\* A batch loop head whose cancellation branch does not leave the loop: it
\* cancels the operation and goes on to the next fetch.
BatchHeadNoBreak ==
    /\ pc = "batchHead"
    /\ IF resultType # "EOS" /\ batchRetries < maxBatchRetries
       THEN /\ fetchCount' = fetchCount + 1
            /\ pc' = "batchFetch"
            /\ IF cancelRequested
               THEN /\ remoteCancels' = remoteCancels + 1
                    /\ cancelSeen' = TRUE
                    /\ outcome' = Canceled(stmtIdx)
               ELSE UNCHANGED <<remoteCancels, cancelSeen, outcome>>
       ELSE /\ pc' = "batchFinal"
            /\ UNCHANGED <<remoteCancels, cancelSeen, outcome, fetchCount>>
    /\ UNCHANGED <<cellFixed, firstPage, lastAnswer, lastPage, errorsInRow, ended, fired, outputs, stmtVars, gatewayVars,
                   nPublish, nComplete, mode>>

\* The head of the batch loop: its condition, then the cancellation check,
\* then the next fetch is issued.
BatchHead ==
    /\ pc = "batchHead"
    /\ IF resultType # "EOS" /\ batchRetries < maxBatchRetries
       THEN IF cancelRequested
            THEN /\ remoteCancels' = remoteCancels + 1
                 /\ cancelSeen' = TRUE
                 /\ outcome' = Canceled(stmtIdx)
                 /\ pc' = "batchFinal"
                 /\ UNCHANGED fetchCount
            ELSE /\ fetchCount' = fetchCount + 1
                 /\ pc' = "batchFetch"
                 /\ UNCHANGED <<remoteCancels, cancelSeen, outcome>>
       ELSE /\ pc' = "batchFinal"
            /\ UNCHANGED <<remoteCancels, cancelSeen, outcome, fetchCount>>
    /\ UNCHANGED <<cellFixed, firstPage, lastAnswer, lastPage, errorsInRow, ended, fired, outputs, stmtVars, gatewayVars,
                   nPublish, nComplete, mode>>

\* catch (pollError) of the batch loop, lines 178-186, with the buffer and
\* the outputs as they stand.
BatchPollError(err, buf, outs) ==
    IF batchRetries + 1 >= batchErrorLimit
    THEN stmtError(err, outs)
    ELSE /\ Locals(resultType, isStreaming, buf, readyRetries, token, batchRetries + 2,
                   currentToken, pollCount, consecutiveEmpty, totalRows)
         /\ outputs' = outs
         /\ Continue("batchHead")
         /\ UNCHANGED outcome

\* The answer to a batch poll, lines 157-186.
BatchFetchResponse ==
    /\ pc = "batchFetch"
    /\ \E r \in Responses(token, {NoToken, token + 2}) :
         /\ Served(r)
         /\ Recorded(token, r)
         /\ IF r.throws
            THEN /\ BatchPollError(r.err, allResults, outputs)
                 /\ UNCHANGED nPublish
            ELSE LET rows == PageRows(rowsServed, r.n)
                     buf == IF r.n > 0 THEN PushRows(allResults, rows) ELSE allResults
                     outs == IF r.n > 0 THEN <<createOutput(buf, NoMeta)>> ELSE outputs
                 IN
                 /\ nPublish' = IF r.n > 0 THEN nPublish + 1 ELSE nPublish
                 /\ IF r.resultType = "EOS"
                    THEN /\ Locals("EOS", isStreaming, buf, readyRetries, token,
                                   batchRetries, currentToken, pollCount,
                                   consecutiveEmpty, totalRows)
                         /\ outputs' = outs
                         /\ Continue("batchFinal")
                         /\ UNCHANGED outcome
                    ELSE IF r.resultType = "ERROR"
                    THEN BatchPollError("error-status", buf, outs)
                    ELSE /\ Locals(r.resultType, isStreaming, buf, readyRetries,
                                   IF r.nextResultToken # NoToken
                                   THEN r.nextResultToken ELSE token + 1,
                                   batchRetries + 1, currentToken, pollCount,
                                   consecutiveEmpty, totalRows)
                         /\ outputs' = outs
                         /\ Continue("batchHead")
                         /\ UNCHANGED outcome
    /\ UNCHANGED <<cellFixed, firstPage, fetchCount, nComplete, remoteCancels, cancelSeen, mode>>

\* Line 190: the final publish of a batch statement.
BatchFinalPublish ==
    /\ pc = "batchFinal"
    /\ outputs' = <<createOutput(allResults, NoMeta)>>
    /\ nPublish' = nPublish + 1
    /\ outcome' = Finished(stmtIdx)
    /\ pc' = "stmtDone"
    /\ ScopeExit
    /\ UNCHANGED <<cellFixed, firstPage, lastAnswer, lastPage, errorsInRow, ended, fired, gatewayVars, fetchCount, nComplete,
                   remoteCancels, cancelSeen, mode>>

(***************************************************************************)
(* Stream polling, lines 193-279.                                          *)
(***************************************************************************)
\* A stream loop head whose cancellation branch does not leave the loop: it
\* cancels the operation, publishes, and goes on to the next fetch.
StreamHeadNoBreak ==
    /\ pc = "streamHead"
    /\ IF pollCount < maxPolls
       THEN /\ currentToken' = currentToken + 1
            /\ fetchCount' = fetchCount + 1
            /\ pc' = "streamFetch"
            /\ IF cancelRequested
               THEN /\ remoteCancels' = remoteCancels + 1
                    /\ cancelSeen' = TRUE
                    /\ outputs' = <<createOutput(allResults,
                                       Meta(FALSE, TRUE, WindowOffset(totalRows, allResults)))>>
                    /\ nPublish' = nPublish + 1
                    /\ nComplete' = nComplete + 1
                    /\ outcome' = Canceled(stmtIdx)
               ELSE UNCHANGED <<remoteCancels, cancelSeen, outputs, nPublish, nComplete,
                                outcome>>
       ELSE /\ pc' = "streamFinal"
            /\ UNCHANGED <<remoteCancels, cancelSeen, outputs, nPublish, nComplete,
                           outcome, fetchCount, currentToken>>
    /\ UNCHANGED <<cellFixed, firstPage, lastAnswer, lastPage, errorsInRow, ended, fired, gatewayVars, resultType, isStreaming,
                   allResults, readyRetries, token, batchRetries, pollCount,
                   consecutiveEmpty, totalRows, mode>>

\* A stream loop head without the cancellation check.
StreamHeadNoCancelCheck ==
    /\ pc = "streamHead"
    /\ IF pollCount < maxPolls
       THEN /\ currentToken' = currentToken + 1
            /\ fetchCount' = fetchCount + 1
            /\ pc' = "streamFetch"
       ELSE /\ pc' = "streamFinal"
            /\ UNCHANGED <<fetchCount, currentToken>>
    /\ UNCHANGED <<cellFixed, firstPage, lastAnswer, lastPage, errorsInRow, ended, fired,
                   gatewayVars, resultType, isStreaming, allResults, readyRetries, token,
                   batchRetries, pollCount, consecutiveEmpty, totalRows, mode,
                   remoteCancels, cancelSeen, outputs, nPublish, nComplete, outcome>>

\* The head of the stream loop: its bound, then the cancellation check (with
\* the publish made on cancellation), then the next fetch is issued.
StreamHead ==
    /\ pc = "streamHead"
    /\ IF pollCount < maxPolls
       THEN IF cancelRequested
            THEN /\ remoteCancels' = remoteCancels + 1
                 /\ cancelSeen' = TRUE
                 /\ outputs' = <<createOutput(allResults,
                                    Meta(FALSE, TRUE, WindowOffset(totalRows, allResults)))>>
                 /\ nPublish' = nPublish + 1
                 /\ nComplete' = nComplete + 1
                 /\ outcome' = Canceled(stmtIdx)
                 /\ pc' = "streamFinal"
                 /\ UNCHANGED <<fetchCount, currentToken>>
            ELSE /\ currentToken' = currentToken + 1
                 /\ fetchCount' = fetchCount + 1
                 /\ pc' = "streamFetch"
                 /\ UNCHANGED <<remoteCancels, cancelSeen, outputs, nPublish, nComplete,
                                outcome>>
       ELSE /\ pc' = "streamFinal"
            /\ UNCHANGED <<remoteCancels, cancelSeen, outputs, nPublish, nComplete,
                           outcome, fetchCount, currentToken>>
    /\ UNCHANGED <<cellFixed, firstPage, lastAnswer, lastPage, errorsInRow, ended, fired, gatewayVars, resultType, isStreaming,
                   allResults, readyRetries, token, batchRetries, pollCount,
                   consecutiveEmpty, totalRows, mode>>

\* catch (pollError) of the stream loop, lines 257-274.
StreamPollError(err) ==
    IF err \in {"tablealreadyexistexception", "noresourceavailableexception"}
    THEN stmtError(err, outputs)
    ELSE IF consecutiveEmpty + 1 >= streamErrorLimit
    THEN stmtError(err, outputs)
    ELSE /\ Locals(resultType, isStreaming, allResults, readyRetries, token,
                   batchRetries, currentToken, pollCount + 1, consecutiveEmpty + 1,
                   totalRows)
         /\ Continue("streamHead")
         /\ UNCHANGED <<outputs, outcome>>

\* The answer to a stream poll, lines 213-274.
StreamFetchResponse ==
    /\ pc = "streamFetch"
    /\ \E r \in Responses(currentToken, {NoToken}) :
         /\ Served(r)
         /\ Recorded(currentToken, r)
         /\ IF r.throws
            THEN /\ StreamPollError(r.err)
                 /\ UNCHANGED nPublish
            ELSE IF r.resultType = "ERROR"
            THEN /\ StreamPollError("error-status")
                 /\ UNCHANGED nPublish
            ELSE IF r.resultType = "CANCELED"
            THEN /\ outcome' = Canceled(stmtIdx)
                 /\ Continue("streamFinal")
                 /\ UNCHANGED <<stmtVars, nPublish, outputs>>
            ELSE LET rows == PageRows(rowsServed, r.n)
                     buf == IF r.n > 0 THEN Window(PushRows(allResults, rows))
                            ELSE allResults
                     total == totalRows + r.n
                     empty == IF r.n > 0 THEN 0 ELSE consecutiveEmpty + 1
                     last == r.resultType \in {"EOS", "FINISHED"}
                 IN
                 /\ IF r.n > 0
                    THEN /\ outputs' = <<createOutput(buf,
                                            Meta(TRUE, FALSE, WindowOffset(total, buf)))>>
                         /\ nPublish' = nPublish + 1
                    ELSE UNCHANGED <<outputs, nPublish>>
                 /\ Locals(resultType, isStreaming, buf, readyRetries, token,
                           batchRetries, currentToken,
                           IF last THEN pollCount ELSE pollCount + 1, empty, total)
                 /\ Continue(IF last THEN "streamFinal" ELSE "streamHead")
                 /\ UNCHANGED outcome
    /\ UNCHANGED <<cellFixed, firstPage, fetchCount, nComplete, remoteCancels, cancelSeen, mode>>

\* Line 278: the final publish of a streaming statement.
StreamFinalPublish ==
    /\ pc = "streamFinal"
    /\ outputs' = <<createOutput(allResults, Meta(FALSE, TRUE, NoOffset))>>
    /\ nPublish' = nPublish + 1
    /\ nComplete' = nComplete + 1
    /\ outcome' = Finished(stmtIdx)
    /\ pc' = "stmtDone"
    /\ ScopeExit
    /\ UNCHANGED <<cellFixed, firstPage, lastAnswer, lastPage, errorsInRow, ended, fired, gatewayVars, fetchCount, remoteCancels,
                   cancelSeen, mode>>

\* A for loop that fires the notification after every statement.
NextStatementFiresEach ==
    /\ pc = "stmtDone"
    /\ fired' = Fire(fired)
    /\ IF stmtIdx < Len(statements)
       THEN /\ stmtIdx' = stmtIdx + 1
            /\ pc' = "submit"
            /\ UNCHANGED ended
       ELSE /\ ended' = "success"
            /\ pc' = "ended"
            /\ UNCHANGED stmtIdx
    /\ UNCHANGED <<outsideEngine, cell, gateway, sessionHandle, statements, hasCreateStatement, cancelRequested,
                   outputs, stmtVars, gatewayVars, historyVars>>

\* The for loop moves on: the next statement, or execution.end(true) and the
\* finally block.
NextStatement ==
    /\ pc = "stmtDone"
    /\ IF stmtIdx < Len(statements)
       THEN /\ stmtIdx' = stmtIdx + 1
            /\ pc' = "submit"
            /\ UNCHANGED <<ended, fired>>
       ELSE /\ ended' = "success"
            /\ fired' = Fire(fired)
            /\ pc' = "ended"
            /\ UNCHANGED stmtIdx
    /\ UNCHANGED <<outsideEngine, cell, gateway, sessionHandle, statements, hasCreateStatement, cancelRequested,
                   outputs, stmtVars, gatewayVars, historyVars>>

EngineStep ==
    \/ GetSession
    \/ ExecuteStatement
    \/ FirstFetchResponse
    \/ ReadyRefetchResponse
    \/ BatchHead
    \/ BatchFetchResponse
    \/ BatchFinalPublish
    \/ StreamHead
    \/ StreamFetchResponse
    \/ StreamFinalPublish
    \/ NextStatement

Next == EngineStep \/ RequestCancel

Spec == Init /\ [][Next]_vars

FairSpec == Spec /\ WF_vars(EngineStep)

(***************************************************************************)
(* The polling loops at length: one statement, and a gateway that keeps    *)
(* its journal, answers MaxPollFetches fetches freely with at most         *)
(* MaxPollRowPages pages of rows, and from then on answers every fetch     *)
(* with an empty page of the same kind: EOS, or PAYLOAD without end.       *)
(***************************************************************************)
MaxPollFetches == 4
MaxPollRowPages == 1

PollCells == {<<"DROP", " ", "t">>}

Journaled ==
    {[fetches |-> MaxPollFetches, rowPages |-> MaxPollRowPages, tail |-> t, journal |-> TRUE] :
        t \in {"EOS", "PAYLOAD"}}

PollInit ==
    /\ cell \in PollCells
    /\ gateway \in Journaled
    /\ EngineStart
    /\ RegistryIdle
    /\ CacheIdle
    /\ ClientIdle

PollSpec == PollInit /\ [][Next]_vars


(***************************************************************************)
(* Properties of the execution engine.                                     *)
(***************************************************************************)
CellLens == {Len(SplitStatements(c)) : c \in Cells}
MaxStatements == CHOOSE n \in CellLens : \A m \in CellLens : m <= n

IsTable(outs) == outs # <<>> /\ outs[1].kind = "table"

\* What the renderer shows as the number of the last row.
Progress(out) == globalOffset(out) + Len(out.data)

\* All rows of the pages fetched for the statement, in fetch order.
FetchedRows == PageRows(0, rowsServed)

AtMostOneOutcome == \A i \in DOMAIN outcome : Cardinality(outcome[i]) <= 1

\* C1: every submitted statement reaches exactly one of the terminal outcomes
\* finished, canceled, failed: never two of them, and, the gateway answering
\* every request, eventually one.
C1_ExactlyOneTerminal ==
    /\ []AtMostOneOutcome
    /\ \A i \in 1..MaxStatements :
         (Len(submitted) >= i) ~> (Len(submitted) >= i /\ Cardinality(outcome[i]) = 1)

C1_Witness ==
    /\ pc = "ended"
    /\ Len(submitted) = MaxStatements
    /\ outcome[1] = {"canceled"}
    /\ outcome[Len(submitted)] = {"failed"}

\* C2: every buffer published for a streaming statement holds at most
\* maxStreamingRows rows.
C2_StreamBufferCapped ==
    (mode = "stream" /\ IsTable(outputs)) => Len(outputs[1].data) <= maxStreamingRows

\* C3: from one publish of a streaming statement to the next, offset +
\* buffer length (offset 0 when the publish carries none) never decreases.
C3_StreamProgressMonotone ==
    [][(mode = "stream" /\ mode' = "stream" /\ IsTable(outputs) /\ IsTable(outputs'))
         => Progress(outputs'[1]) >= Progress(outputs[1])]_vars

\* C4: the buffer last published for a batch statement is the concatenation,
\* in fetch order, of the rows of all pages fetched for it, uncapped.
C4_BatchBufferComplete ==
    mode = "batch" => (IsTable(outputs) /\ outputs[1].data = FetchedRows)

C4_Witness ==
    /\ pc = "stmtDone"
    /\ mode = "batch"
    /\ fetchCount >= 3
    /\ Len(outputs[1].data) > maxStreamingRows + 1

\* C5: a streaming statement whose cancellation the engine saw ends with one
\* remote cancel, exactly one publish marked complete, and canceled.
C5_StreamCancelOnePublish ==
    (pc = "stmtDone" /\ mode = "stream" /\ cancelSeen)
        => (remoteCancels = 1 /\ nComplete = 1 /\ outcome[stmtIdx] = {"canceled"})

\* C6: once the engine has seen the cancellation in batch or stream polling,
\* it issues no further result fetch for that statement.
C6_NoFetchAfterCancelSeen ==
    [][(cancelSeen /\ cancelSeen') => fetchCount' = fetchCount]_vars

C6_Witness ==
    /\ pc = "stmtDone"
    /\ cancelSeen
    /\ mode = "batch"
    /\ fetchCount >= 2

\* The statements are submitted in cell order, each after the one before it
\* reached its terminal outcome.
SubmittedInOrder ==
    /\ Len(submitted) <= Len(statements)
    /\ \A i \in 1..Len(submitted) :
         /\ submitted[i] = statements[i]
         /\ i < Len(submitted) => Cardinality(outcome[i]) = 1

CellHasCreate == HasCreate(SplitStatements(cell))

\* C10 as stated: statements are submitted in cell order, one after the
\* other, and a cell that contains a CREATE statement has fired the
\* notification exactly once when its execution has ended.
C10_NotifiedOncePerExecution ==
    /\ SubmittedInOrder
    /\ fired <= 1
    /\ (pc = "ended" /\ CellHasCreate) => fired = 1

\* C10 amended: the notification is fired exactly once, at the end, when the
\* session handle was obtained, and not at all when obtaining it failed.
C10_NotifiedOnceWithSession ==
    /\ SubmittedInOrder
    /\ fired <= 1
    /\ pc # "ended" => fired = 0
    /\ (pc = "ended" /\ CellHasCreate) => fired = (IF sessionHandle = "unset" THEN 0 ELSE 1)

C10_Witness ==
    /\ pc = "ended"
    /\ ended = "success"
    /\ Len(submitted) = MaxStatements
    /\ StartsWithCreate(submitted[1]) /\ StartsWithCreate(submitted[Len(submitted)])
    /\ fired = 1

(***************************************************************************)
(* Properties of the session registry.                                     *)
(***************************************************************************)
\* The step in which a getActiveSessionHandle call gives its answer.
Answers(c) ==
    /\ calls[c].pc # "done"
    /\ calls'[c].pc = "done"
    /\ calls'[c].op = "getActiveSessionHandle"

\* C7: a getActiveSessionHandle call whose liveness check of the active
\* session failed, and which does not fail creating the replacement, answers
\* with a handle it created, other than the stale one, registered under the
\* name default on the stale session's connection, and the stale handle is
\* then not in the session list.
C7_RecoveryReplacesStale ==
    [][\A c \in Callers :
         (Answers(c) /\ calls'[c].recovered /\ ~calls'[c].thrown) =>
            LET r == calls'[c] IN
            /\ r.result # r.arg
            /\ r.result = r.created
            /\ \E i \in DOMAIN _sessions' :
                 _sessions'[i] = SessionInfo("default", r.result, r.staleConn)
            /\ r.arg \notin Handles(_sessions')]_vars

\* C8: a getActiveSessionHandle call that does not fail answers with the
\* handle of a session in the session list that this call validated or
\* created: never with an empty handle, never with a handle it found invalid.
C8_ReturnsValidHandleOrFails ==
    [][\A c \in Callers :
         (Answers(c) /\ ~calls'[c].thrown) =>
            LET r == calls'[c] IN
            /\ ~Falsy(r.result)
            /\ r.result \in Handles(_sessions')
            /\ r.result \in {r.validated, r.created}
            /\ ~(r.recovered /\ r.result = r.arg)]_vars

\* C9: a session list that holds a session holds one in every later state.
C9_RegistryStaysNonEmpty ==
    [][Len(_sessions) >= 1 => Len(_sessions') >= 1]_vars

(***************************************************************************)
(* Further properties of the execution engine.                             *)
(***************************************************************************)
\* s.toUpperCase().startsWith('DROP')
StartsWithDrop(s) == Len(s) > 0 /\ ToUpperCase(s[1]) = "DROP"

CellHasDrop ==
    LET stmts == SplitStatements(cell) IN
    \E i \in 1..Len(stmts) : StartsWithDrop(stmts[i])

\* C11: a cell with a DROP statement and no statement starting with CREATE
\* has fired the notification when its execution, which obtained its session
\* handle, has ended.
C11_DropFiresNotification ==
    (pc = "ended" /\ sessionHandle # "unset" /\ CellHasDrop /\ ~CellHasCreate) => fired >= 1

\* C12: once a statement has ended failed it is the last one submitted, and
\* the cell execution has ended unsuccessful.
C12_FailureStopsCell ==
    \A i \in DOMAIN outcome :
        "failed" \in outcome[i] =>
            /\ Len(submitted) <= i
            /\ pc = "ended"
            /\ ended = "failure"

C12_Witness ==
    /\ pc = "ended"
    /\ Len(statements) = MaxStatements
    /\ Len(submitted) = 1
    /\ outcome[1] = {"failed"}
    /\ ended = "failure"

\* C13: a statement whose first ready page is not a query result and is EOS
\* has been published exactly once and has ended finished, and no fetch is
\* issued for it after that page.
C13_EosPagePublishedOnce ==
    /\ []((mode = "batch" /\ firstPage = "EOS") =>
            (nPublish = 1 /\ outcome[Len(submitted)] = {"finished"}))
    /\ [][(mode = "batch" /\ firstPage = "EOS" /\ mode' = "batch" /\ firstPage' = "EOS") =>
            fetchCount' = fetchCount]_vars

C13_Witness ==
    /\ pc = "stmtDone"
    /\ mode = "batch"
    /\ firstPage = "EOS"
    /\ fetchCount >= 2
    /\ IsTable(outputs)

\* C14: token 0 is fetched at most 1 + 60 times for a statement; a statement
\* whose page was NOT_READY every time has ended failed with the timeout
\* error as the last output, the execution unsuccessful, and nothing was
\* published for it.
C14_ReadyWaitBounded ==
    /\ readyRetries <= maxReadyRetries
    /\ mode = "none" => fetchCount <= maxReadyRetries + 1
    /\ (pc = "ended" /\ mode = "none" /\ firstPage = "NOT_READY"
          /\ fetchCount = maxReadyRetries + 1) =>
            /\ outcome[Len(submitted)] = {"failed"}
            /\ ended = "failure"
            /\ nPublish = 0
            /\ outputs[Len(outputs)].kind = "error"
            /\ outputs[Len(outputs)].message = TimedOut

C14_Witness ==
    /\ pc = "ended"
    /\ mode = "none"
    /\ firstPage = "NOT_READY"
    /\ fetchCount = maxReadyRetries + 1
    /\ ~cancelRequested
    /\ Len(submitted) = MaxStatements

(***************************************************************************)
(* Properties of the polling loops.                                        *)
(***************************************************************************)
\* The step in which the engine takes the answer to a batch or stream poll.
PollAnswered ==
    /\ pc \in {"batchFetch", "streamFetch"}
    /\ pc' # pc

\* The statement of the for loop has failed in the state the step leads to.
FailsNow == "failed" \in outcome'[stmtIdx]

FailFast == {"tablealreadyexistexception", "noresourceavailableexception"}

\* C21: in batch polling and in stream polling the step that takes a page
\* with resultType ERROR fails the statement, so that no further page is
\* fetched for it.
C21_ErrorPageFailsAtOnce ==
    [][(PollAnswered /\ lastAnswer'.kind = "ERROR") => FailsNow]_vars

\* C22: in batch polling and in stream polling the step that takes a poll
\* error of another class than the two fail-fast ones fails the statement
\* exactly when it is the fifth failed fetch in a row, the fetches that
\* brought a page not counting and resetting the count.
C22_FiveErrorsInRowFail ==
    [][(PollAnswered /\ lastAnswer'.kind = "thrown" /\ lastAnswer'.err \notin FailFast)
          => (FailsNow <=> errorsInRow' = batchErrorLimit)]_vars

\* C23: in batch polling and in stream polling the step that takes a poll
\* error naming TableAlreadyExistException or NoResourceAvailableException
\* fails the statement, so that no further page is fetched for it.
C23_FailFastOnFirstOccurrence ==
    [][(PollAnswered /\ lastAnswer'.kind = "thrown" /\ lastAnswer'.err \in FailFast)
          => FailsNow]_vars

\* C24: when the wait for the first page ends on a NOT_READY page with the
\* cancellation requested, the statement is canceled, not failed, and the
\* remote operation has been cancelled.
C24_CancelWhileNotReady ==
    [][(/\ pc \in {"firstFetch", "readyWait"}
        /\ pc' \notin {"firstFetch", "readyWait"}
        /\ cancelRequested
        /\ firstPage' = "NOT_READY")
          => (outcome'[stmtIdx] = {"canceled"} /\ remoteCancels' >= 1)]_vars

\* C25: stream polling is left for the final publish only after a page with
\* resultType EOS, FINISHED or CANCELED or after the engine saw the
\* cancellation: never because of the number of polls made.
C25_StreamStopsOnlyOnTerminalEvent ==
    (mode = "stream" /\ pc = "streamFinal")
        => (cancelSeen \/ lastAnswer.kind \in {"EOS", "FINISHED", "CANCELED"})

\* C26: a statement classified as bounded that has ended finished has
\* received a page with resultType EOS, also when batch polling used up its
\* maxBatchRetries.
C26_FinishedOnlyAfterEos ==
    (mode = "batch" /\ pc = "stmtDone" /\ outcome[stmtIdx] = {"finished"})
        => lastAnswer.kind = "EOS"

\* The token that follows the latest page fetched without error.
TokenAfter(page) ==
    IF page.nextResultToken # NoToken THEN page.nextResultToken ELSE page.token + 1

\* C27: the token of every fetch issued in batch or stream polling is the
\* nextResultToken of the latest page fetched without error when that page
\* carried one, and that page's token plus one otherwise; so a token whose
\* fetch failed is fetched again.
C27_TokenFollowsLastPage ==
    [][(pc \in {"batchHead", "streamHead"} /\ fetchCount' = fetchCount + 1)
          => (IF pc = "batchHead" THEN token' ELSE currentToken') = TokenAfter(lastPage)]_vars

\* a is the end of b.
IsSuffix(a, b) ==
    /\ Len(a) <= Len(b)
    /\ a = SubSeq(b, Len(b) - Len(a) + 1, Len(b))

\* The rows are in the order in which the gateway served them.
InFetchOrder(buf) == \A i \in 1..(Len(buf) - 1) : buf[i] < buf[i + 1]

CancelRequestedInStream(i) ==
    /\ stmtIdx = i
    /\ mode = "stream"
    /\ pc \in {"streamHead", "streamFetch"}
    /\ cancelRequested

C35_NoSubmitAfterCancelSeen ==
    [][cancelSeen => submitted' = submitted]_vars

\* C36: once the latest page fetched for a statement is an EOS page, no
\* result fetch is issued for that statement.
C36_NoFetchAfterEos ==
    [][(lastAnswer.kind = "EOS" /\ pc # "submit") => fetchCount' = fetchCount]_vars

(***************************************************************************)
(* Properties of the metadata caches.                                      *)
(***************************************************************************)
\* The request, made while no value was cached and a fetch of its key was
\* in flight, started no fetch and receives the result of a fetch that was
\* in flight.
Deduplicated(r) ==
    (~r.cachedAtStart /\ r.inflightAtStart # {}) =>
        (~r.started /\ r.fetch \in r.inflightAtStart)

\* C15: in the catalog explorer's caches, a request for a key made while no
\* value is cached and a fetch of that key is in flight starts no second
\* fetch and receives that fetch's result.
C15_ExplorerDeduplicates ==
    provider \in {"cachedFetch", "cached"} =>
        \A i \in DOMAIN requests : Deduplicated(requests[i])

\* C16: in the completion provider's cache, a request for an uncached key
\* made while a remote call for that key is in flight makes no second remote
\* call: it waits for the first.
C16_CompletionDeduplicates ==
    provider = "metadataCache" =>
        \A i \in DOMAIN requests : Deduplicated(requests[i])

\* C17: in the explorer's cached, no key holds an entry that comes from a
\* fetch whose remote call failed.
C17_FailedFetchNotCached ==
    provider = "cached" =>
        \A k \in Keys :
            cache[k].kind = "promise" => fetches[cache[k].fetch].state # "failed"

\* C39: in the explorer's cachedFetch, a step that stores the value of a
\* fetch in the cache stores the value of the key's pending request: a fetch
\* started before a refresh, which is no longer the key's pending request
\* once refresh has cleared the pending requests, stores nothing.
C39_NoValueFromBeforeRefresh ==
    [][provider = "cachedFetch" =>
         \A k \in Keys :
             (cache'[k].kind = "data" /\ cache'[k].fetch # cache[k].fetch) =>
                 pendingRequests[k] = cache'[k].fetch]_vars

(***************************************************************************)
(* Further properties of the session registry.                             *)
(***************************************************************************)
\* The step takes the session with this handle, and no other, off the list.
Removes(h) ==
    /\ h \in Handles(_sessions)
    /\ _sessions' = Filter(_sessions, h)

\* C18: a step that removes the active session makes the first remaining
\* session of the list the active one, or leaves no active session when the
\* list is then empty; a step that removes a session that is not the active
\* one leaves the active pointer as it was.
C18_RemovalMovesActivePointer ==
    [][\A h \in Handles(_sessions) :
         Removes(h) =>
            IF _activeSessionHandle = h
            THEN _activeSessionHandle' =
                    (IF Len(_sessions') > 0 THEN _sessions'[1].handle ELSE Undefined)
            ELSE _activeSessionHandle' = _activeSessionHandle]_vars

\* Three sessions were listed, the third one active; removeSession took it
\* off the list and the first of the two that remain is active.
C18_Witness ==
    \E c \in Callers :
        /\ calls[c].op = "removeSession"
        /\ calls[c].pc = "done"
        /\ calls[c].ok
        /\ calls[c].arg = 3
        /\ Len(_sessions) = 2
        /\ _sessions[1].handle = 1
        /\ _activeSessionHandle = 1

\* C19: a connection list that holds a connection holds one in every later
\* state, whatever the order in which remove prompts open and close.
C19_ConnectionsStayNonEmpty ==
    [][Len(connections) >= 1 => Len(connections') >= 1]_vars

(***************************************************************************)
(* Properties of the registry over saves, reloads and overlapping calls.   *)
(***************************************************************************)
\* No registry operation is under way and no _saveSessions is in flight.
AtRest ==
    /\ \A c \in Callers : calls[c].pc \in {"idle", "done"}
    /\ saves = 0

\* C31 as stated: when no registry operation is under way and no save is in
\* flight, workspaceState holds the session list and the active handle that
\* the registry has in memory.
C31_StoredEqualsMemory ==
    AtRest => /\ flinkSessionsList = _sessions
              /\ flinkActiveSessionHandle = _activeSessionHandle

\* C31 amended: when no registry operation is under way and no save is in
\* flight, workspaceState holds the session list the registry has in memory,
\* and the active handle it has in memory unless the registry was constructed
\* from a stored list without a stored active handle: then the first session
\* of the list is active in memory and nothing is stored until the next save.
C31_StoredEqualsMemoryUnlessDefaulted ==
    AtRest => /\ flinkSessionsList = _sessions
              /\ \/ flinkActiveSessionHandle = _activeSessionHandle
                 \/ /\ Falsy(flinkActiveSessionHandle)
                    /\ Len(_sessions) > 0
                    /\ _activeSessionHandle = _sessions[1].handle

\* Two sessions were stored, the first one active; removeSession took the
\* first off the list, its save went on by itself, and the store holds the one
\* session left and its handle as the active one.
C31_Witness ==
    /\ workbench.updates = "later"
    /\ AtRest
    /\ \E c \in Callers :
         /\ calls[c].op = "removeSession"
         /\ calls[c].ok
         /\ calls[c].arg = 1
    /\ Handles(flinkSessionsList) = {2}
    /\ flinkActiveSessionHandle = 2
    /\ _activeSessionHandle = 2

\* The step in which the liveness check of a getActiveSessionHandle call is
\* answered.
CheckAnswered(c) ==
    /\ calls[c].pc = "checkSession"
    /\ calls'[c].pc # "checkSession"

\* C32: the step in which the liveness check of a getActiveSessionHandle call
\* is answered takes no session off the list but the one that was checked.
C32_RemovesOnlyCheckedSession ==
    [][\A c \in Callers :
         CheckAnswered(c) =>
            Handles(_sessions) \ Handles(_sessions') \subseteq {calls[c].arg}]_vars

\* The call has recovered from a failed liveness check of this handle and has
\* answered with a handle.
RecoveredFrom(c, handle) ==
    /\ calls[c].op = "getActiveSessionHandle"
    /\ calls[c].arg = handle
    /\ calls[c].recovered
    /\ calls[c].pc = "done"
    /\ ~calls[c].thrown

\* C33: of two getActiveSessionHandle calls whose liveness checks of the same
\* handle were in flight together and both failed, exactly one has registered
\* a replacement session once both have answered.
C33_OneReplacementForOverlappingCalls ==
    \A c, d \in Callers :
        (/\ c # d
         /\ calls[c].overlaps
         /\ RecoveredFrom(c, calls[c].arg)
         /\ RecoveredFrom(d, calls[c].arg)) =>
            Cardinality({e \in {c, d} : calls[e].created # Undefined}) = 1

\* C34: the active handle is unset or the handle of a session of the session
\* list.
C34_ActiveHandleIsListed ==
    _activeSessionHandle = Undefined \/ _activeSessionHandle \in Handles(_sessions)

\* C37: the step in which the liveness check of a getActiveSessionHandle call
\* is answered takes a session off the list only if the gateway answered with
\* an error status: not when the request failed on the network.
C37_NetworkFailureKeepsSession ==
    [][\A c \in Callers :
         (CheckAnswered(c) /\ workbench.outage = "network") => _sessions' = _sessions]_vars

\* C38: a createSession call that was given a connectionId registers its
\* session on the connection with that id.
C38_RegistersOnAskedConnection ==
    [][\A c \in Callers :
         (/\ calls[c].pc = "creating"
          /\ calls'[c].created # Undefined
          /\ calls[c].asked # NoConnection) =>
            \E i \in DOMAIN _sessions' :
                /\ _sessions'[i].handle = calls'[c].created
                /\ _sessions'[i].connectionId = calls[c].asked]_vars

(***************************************************************************)
(* Properties of cancelOperation.                                          *)
(***************************************************************************)
\* The places in the call's requests where this request is.
Places(req) == {i \in DOMAIN cancelCall.requests : cancelCall.requests[i] = req}

\* C30: the close request is made only after the cancel request, the one
\* cancel request of the call; the call makes its cancel request whatever
\* cancelJob met; and neither a failed job cancel nor a failed cancel request
\* nor a failed close request makes the call throw: it returns.
C30_CancelBeforeCloseNeverThrows ==
    /\ ~cancelCall.thrown
    /\ Cardinality(Places("cancel")) <= 1
    /\ \A c \in Places("close") : \E k \in Places("cancel") : k < c
    /\ cancelCall.pc = "returned" =>
          /\ Cardinality(Places("cancel")) = 1
          /\ Places("close") # {} <=> cancelCall.answers.cancel = "ok"

\* The job cancel failed, the cancel request was answered ok, the close
\* request failed, and the call has returned.
C30_Witness ==
    /\ cancelCall.pc = "returned"
    /\ cancelCall.jobId
    /\ cancelCall.answers = [job |-> "network", cancel |-> "ok", close |-> "status"]
    /\ cancelCall.requests = <<"job", "cancel", "close">>
    /\ ~cancelCall.thrown

(***************************************************************************)
(* Properties of executeMetadataSql.                                       *)
(***************************************************************************)
\* C40: the rows executeMetadataSql returns are the distinct rows, in fetch
\* order, of all the pages it fetched, and it has issued at most 21 result
\* fetches when it returns.
C40_ReturnsDistinctRowsOfAllPages ==
    metaCall.pc = "returned" =>
        /\ metaCall.returned = metaCall.fetched
        /\ metaCall.fetches <= maxMetadataRetries + 1

(***************************************************************************)
(* Properties of the gateway client's error messages.                      *)
(***************************************************************************)
\* The lines of a stack, its wrapping taken off.
StackLines(st) == SplitLines(StripClosing(StripOpening(st)))

\* The error was raised for a body of the form {errors: [short, stack]}.
RaisedForStack ==
    /\ raised # NoError
    /\ response.body.kind = "errors"
    /\ Len(response.body.errors) = 2

Greatest(S) == CHOOSE i \in S : \A j \in S : j <= i

\* C20 as stated: for a body {errors: [short, stack]} the message of the
\* error is short, a space, and the last line of the stack that starts with
\* 'Caused by:' when the stack has such a line, and short alone otherwise.
C20_LastCausedByLineAppended ==
    RaisedForStack =>
        LET short == response.body.errors[1]
            lines == StackLines(response.body.errors[2])
            at == {i \in DOMAIN lines :
                     lines[i] # <<>> /\ Head(lines[i]) = "Caused by:"}
        IN  raised.message =
                IF at = {} THEN short ELSE short \o <<" ">> \o lines[Greatest(at)]

\* C20, with the white space around a line left out of account: for a body
\* {errors: [short, stack]} the message of the error is short, a space, and
\* the last line of the stack whose text after its leading white space starts
\* with 'Caused by:', appended without the white space around it, when the
\* stack has such a line, and short alone otherwise.
C20_LastCausedByTrimmedAppended ==
    RaisedForStack =>
        LET short == response.body.errors[1]
            lines == StackLines(response.body.errors[2])
            at == {i \in DOMAIN lines : IsCausedBy(lines[i])}
        IN  /\ raised.appended = <<>>
            /\ raised.message =
                  IF at = {} THEN short
                  ELSE short \o <<" ">> \o Trim(lines[Greatest(at)])

\* The stack has two 'Caused by:' lines, the last one indented, and the
\* message ends with the last one.
C20_Witness ==
    /\ RaisedForStack
    /\ response.body.errors[1] = <<"Internal server error.">>
    /\ response.body.errors[2] = <<"Caused by:", "x", "\n", " ", "Caused by:">>
    /\ raised.message = <<"Internal server error.", " ", "Caused by:">>

====
